---- MODULE Spec2Model ----
(***************************************************************************)
(* Model of the instruction-file context validator                         *)
(* (scripts/context_validator and scripts/validate_context_limits.py).     *)
(*                                                                         *)
(* Text is modelled as a sequence of one-character strings, so that        *)
(* fnmatch, Path.name and str.replace are computed character by character. *)
(* Floats are modelled exactly as rationals: a quartile is a multiple of   *)
(* 1/4 and the IQR multiplier is a fraction num/den, so every statistic is *)
(* stored as an integer numerator over the common denominator "scale".     *)
(***************************************************************************)
EXTENDS Integers, Sequences, FiniteSets, TLC

VARIABLES
  call_args,             \* a single call: the function and its arguments
  call_ret,              \* a single call: pending, returned value or raised
  entry,                 \* "script" (validate_context_limits.py) or "package"
  compare_to,            \* args.compare_to ("" when the option is absent)
  config_file,           \* the configuration file main reads
  git_env,               \* what git answered to the run ({} while not asked)
  config,                \* the dict load_config returned
  pc,                    \* position of main
  check_i,               \* index of the current entry of file_checks
  files,                 \* files of the current entry still to validate
  errors, warnings, current_section,
  section_total_tokens, section_files,
  overall_total_tokens, overall_files,
  category_totals,       \* dict section -> tokens
  category_files,        \* dict section -> [(path, tokens)], insertion order
  results,               \* history: the ValidationResult of every file, in order
  output,                \* history: the lines of the outlier analysis
  exit_code              \* the value main returned (-1 until it returns)

callVars == <<call_args, call_ret>>

mainVars == <<entry, compare_to, config_file, git_env, config, pc, check_i, files, errors,
              warnings, current_section, section_total_tokens, section_files,
              overall_total_tokens, overall_files, category_totals, category_files,
              results, output, exit_code>>

vars == <<callVars, mainVars>>

(***************************************************************************)
(* Bounds of the explored inputs.                                          *)
(***************************************************************************)
MaxChars == 12
MaxCpt == 4
Slack == 1
MaxLen == 5
MaxFiles == 4
MaxLines == 3

(***************************************************************************)
(* Text constants.                                                         *)
(***************************************************************************)
PAT_CLAUDE == <<"C", "L", "A", "U", "D", "E", ".", "m", "d">>
PAT_GEMINI == <<"G", "E", "M", "I", "N", "I", ".", "m", "d">>
PAT_GPT == <<"G", "P", "T", ".", "m", "d">>
PAT_OPENAI == <<"O", "P", "E", "N", "A", "I", ".", "m", "d">>
PAT_GROK == <<"G", "R", "O", "K", ".", "m", "d">>
PAT_XAI == <<"X", "A", "I", ".", "m", "d">>
PAT_AGENTS == <<"A", "G", "E", "N", "T", "S", ".", "m", "d">>
PAT_COPILOT == <<".", "g", "i", "t", "h", "u", "b", "/", "c", "o", "p", "i", "l", "o", "t", "-", "i", "n", "s", "t", "r", "u", "c", "t", "i", "o", "n", "s", ".", "m", "d">>
PAT_INSTR == <<".", "g", "i", "t", "h", "u", "b", "/", "i", "n", "s", "t", "r", "u", "c", "t", "i", "o", "n", "s", "/", "*", ".", "i", "n", "s", "t", "r", "u", "c", "t", "i", "o", "n", "s", ".", "m", "d">>
PAT_PROMPT == <<".", "g", "i", "t", "h", "u", "b", "/", "p", "r", "o", "m", "p", "t", "s", "/", "*", ".", "p", "r", "o", "m", "p", "t", ".", "m", "d">>
PAT_AGENT == <<".", "g", "i", "t", "h", "u", "b", "/", "a", "g", "e", "n", "t", "s", "/", "*", ".", "a", "g", "e", "n", "t", ".", "m", "d">>

G_INSTR == <<".", "g", "i", "t", "h", "u", "b", "/", "i", "n", "s", "t", "r", "u", "c", "t", "i", "o", "n", "s", "/", "*", "*", "/", "*", ".", "i", "n", "s", "t", "r", "u", "c", "t", "i", "o", "n", "s", ".", "m", "d">>
G_PROMPT == <<".", "g", "i", "t", "h", "u", "b", "/", "p", "r", "o", "m", "p", "t", "s", "/", "*", "*", "/", "*", ".", "p", "r", "o", "m", "p", "t", ".", "m", "d">>
G_AGENT == <<".", "g", "i", "t", "h", "u", "b", "/", "a", "g", "e", "n", "t", "s", "/", "*", "*", "/", "*", ".", "a", "g", "e", "n", "t", ".", "m", "d">>
repo_root == <<"/", "r">>

UpperChars == <<"A", "B", "C", "D", "E", "F", "G", "H", "I", "J", "K", "L", "M", "N", "O", "P", "Q", "R", "S", "T", "U", "V", "W", "X", "Y", "Z">>
LowerChars == <<"a", "b", "c", "d", "e", "f", "g", "h", "i", "j", "k", "l", "m", "n", "o", "p", "q", "r", "s", "t", "u", "v", "w", "x", "y", "z">>

(***************************************************************************)
(* config.py: the provider table, in declaration order (a Python dict      *)
(* iterates in insertion order).                                           *)
(***************************************************************************)
LLM_PROVIDERS ==
  << [key |-> "anthropic", display_name |-> "Anthropic Claude",
      file_patterns |-> <<PAT_CLAUDE>>,
      context_window_tokens |-> 200000, instruction_limit_pct |-> 4],
     [key |-> "google", display_name |-> "Google Gemini",
      file_patterns |-> <<PAT_GEMINI>>,
      context_window_tokens |-> 1048576, instruction_limit_pct |-> 4],
     [key |-> "openai", display_name |-> "OpenAI GPT",
      file_patterns |-> <<PAT_GPT, PAT_OPENAI>>,
      context_window_tokens |-> 1047576, instruction_limit_pct |-> 4],
     [key |-> "xai", display_name |-> "xAI Grok",
      file_patterns |-> <<PAT_GROK, PAT_XAI>>,
      context_window_tokens |-> 1000000, instruction_limit_pct |-> 4],
     [key |-> "default", display_name |-> "Default (Copilot)",
      file_patterns |-> <<PAT_AGENTS, PAT_COPILOT, PAT_INSTR, PAT_PROMPT, PAT_AGENT>>,
      context_window_tokens |-> 200000, instruction_limit_pct |-> 4] >>

ProviderKeys == {LLM_PROVIDERS[i].key : i \in 1..Len(LLM_PROVIDERS)}

\* LLM_PROVIDERS[key]
ProviderConfig(key) ==
  LLM_PROVIDERS[CHOOSE i \in 1..Len(LLM_PROVIDERS) : LLM_PROVIDERS[i].key = key]

(***************************************************************************)
(* Python integer floor division a // b (b /= 0).                          *)
(***************************************************************************)
PyFloorDiv(a, b) == IF b > 0 THEN a \div b ELSE (0 - a) \div (0 - b)

(***************************************************************************)
(* Text helpers: str.replace of one character, str.lower, os.path.normcase *)
(***************************************************************************)
ReplaceChar(s, old, new) == [i \in 1..Len(s) |-> IF s[i] = old THEN new ELSE s[i]]

LowerChar(c) ==
  IF \E i \in 1..Len(UpperChars) : UpperChars[i] = c
  THEN LowerChars[CHOOSE i \in 1..Len(UpperChars) : UpperChars[i] = c]
  ELSE c

\* os.path.normcase: identity on posix; lower case and "/" -> "\" on nt
normcase(s, os_name) ==
  IF os_name = "nt"
  THEN [i \in 1..Len(s) |-> IF s[i] = "/" THEN "\\" ELSE LowerChar(s[i])]
  ELSE s

\* fnmatch.fnmatchcase for patterns made of literals, "*" and "?"
RECURSIVE fnmatchcase(_, _)
fnmatchcase(name, pat) ==
  IF pat = <<>> THEN name = <<>>
  ELSE IF Head(pat) = "*"
       THEN fnmatchcase(name, Tail(pat))
            \/ (name # <<>> /\ fnmatchcase(Tail(name), pat))
  ELSE IF name = <<>> THEN FALSE
  ELSE (Head(pat) = "?" \/ Head(pat) = Head(name))
       /\ fnmatchcase(Tail(name), Tail(pat))

\* fnmatch.fnmatch: both arguments go through os.path.normcase
fnmatch(name, pat, os_name) ==
  fnmatchcase(normcase(name, os_name), normcase(pat, os_name))

\* The separators pathlib splits a path on
PathSeps(os_name) == IF os_name = "nt" THEN {"/", "\\"} ELSE {"/"}

\* Path(raw).name: what follows the last separator
PathName(raw, os_name) ==
  LET seps == {i \in 1..Len(raw) : raw[i] \in PathSeps(os_name)}
      last == IF seps = {} THEN 0 ELSE CHOOSE i \in seps : \A j \in seps : j <= i
  IN SubSeq(raw, last + 1, Len(raw))

\* str(Path(raw)): pathlib writes the platform's separator
PathStr(raw, os_name) ==
  IF os_name = "nt" THEN ReplaceChar(raw, "/", "\\") ELSE raw

(***************************************************************************)
(* utils.py                                                                *)
(***************************************************************************)
RECURSIVE provider_scan(_, _, _, _)
provider_scan(i, filename, rel_path, os_name) ==
  IF i > Len(LLM_PROVIDERS) THEN "default"
  ELSE LET profile == LLM_PROVIDERS[i]
       IN IF profile.key = "default"
          THEN provider_scan(i + 1, filename, rel_path, os_name)
          ELSE IF \E j \in 1..Len(profile.file_patterns) :
                    \/ fnmatch(filename, profile.file_patterns[j], os_name)
                    \/ fnmatch(rel_path, profile.file_patterns[j], os_name)
               THEN profile.key
               ELSE provider_scan(i + 1, filename, rel_path, os_name)

\* Matching the whole path only, not the filename.
get_provider_for_file_path_only(file_path, os_name) ==
  LET rel_path == ReplaceChar(PathStr(file_path, os_name), "\\", "/")
  IN provider_scan(1, rel_path, rel_path, os_name)

get_provider_for_file(file_path, os_name) ==
  LET filename == PathName(file_path, os_name)
      rel_path == ReplaceChar(PathStr(file_path, os_name), "\\", "/")
  IN provider_scan(1, filename, rel_path, os_name)

\* A plain LLM_PROVIDERS[provider_key] raises KeyError on every unknown key.
get_provider_token_limit_raises_indexing(provider_key) ==
  provider_key \notin ProviderKeys

\* LLM_PROVIDERS.get(provider_key, LLM_PROVIDERS["default"]) raises KeyError
\* only when the table has no "default" entry.
get_provider_token_limit_raises(provider_key) ==
  "default" \notin ProviderKeys

\* Rounding up instead of down.
get_provider_token_limit_ceil(provider_key) ==
  LET profile == IF provider_key \in ProviderKeys
                THEN ProviderConfig(provider_key)
                ELSE ProviderConfig("default")
  IN PyFloorDiv(profile.context_window_tokens * profile.instruction_limit_pct + 99, 100)

\* LLM_PROVIDERS.get(provider_key, LLM_PROVIDERS["default"])
get_provider_token_limit(provider_key) ==
  LET profile == IF provider_key \in ProviderKeys
                THEN ProviderConfig(provider_key)
                ELSE ProviderConfig("default")
      context_tokens == profile.context_window_tokens
      limit_pct == profile.instruction_limit_pct
  IN PyFloorDiv(context_tokens * limit_pct, 100)

\* The length of the content reported even when the file cannot be read.
get_char_count_unguarded(file) == file.content_len

\* A file of the working tree: its path, the length of its text and whether
\* open()/read() succeed on it.
get_char_count(file) == IF file.readable THEN file.content_len ELSE 0

\* ZeroDivisionError at the ceiling division
estimate_tokens_raises(char_count, chars_per_token) ==
  char_count # 0 /\ chars_per_token = 0

\* Floor instead of ceiling division.
estimate_tokens_floor(char_count, chars_per_token) ==
  IF char_count = 0 THEN 0 ELSE PyFloorDiv(char_count, chars_per_token)

estimate_tokens(char_count, chars_per_token) ==
  IF char_count = 0 THEN 0
  ELSE PyFloorDiv(char_count + chars_per_token - 1, chars_per_token)

(***************************************************************************)
(* validator.py                                                            *)
(***************************************************************************)
\* validate_file raises what estimate_tokens and get_provider_token_limit raise
validate_file_raises(file, os_name, chars_per_token, info_pct, warn_pct) ==
  \/ estimate_tokens_raises(get_char_count(file), chars_per_token)
  \/ get_provider_token_limit_raises(get_provider_for_file(file.path, os_name))

\* The info threshold compared with >= instead of >.
validate_file_info_ge(file, os_name, chars_per_token, info_pct, warn_pct) ==
  LET char_count == get_char_count(file)
      token_count == estimate_tokens(char_count, chars_per_token)
      provider == get_provider_for_file(file.path, os_name)
      token_limit == get_provider_token_limit(provider)
      info_threshold == PyFloorDiv(token_limit * info_pct, 100)
      warn_threshold == PyFloorDiv(token_limit * warn_pct, 100)
      status == IF token_count > token_limit THEN "error"
                ELSE IF token_count > warn_threshold THEN "warning"
                ELSE IF token_count >= info_threshold THEN "info"
                ELSE "ok"
  IN [path |-> file.path, char_count |-> char_count, token_count |-> token_count,
      token_limit |-> token_limit, provider |-> provider, status |-> status]

\* The limit compared with >= instead of >.
validate_file_limit_ge(file, os_name, chars_per_token, info_pct, warn_pct) ==
  LET char_count == get_char_count(file)
      token_count == estimate_tokens(char_count, chars_per_token)
      provider == get_provider_for_file(file.path, os_name)
      token_limit == get_provider_token_limit(provider)
      info_threshold == PyFloorDiv(token_limit * info_pct, 100)
      warn_threshold == PyFloorDiv(token_limit * warn_pct, 100)
      status == IF token_count >= token_limit THEN "error"
                ELSE IF token_count > warn_threshold THEN "warning"
                ELSE IF token_count > info_threshold THEN "info"
                ELSE "ok"
  IN [path |-> file.path, char_count |-> char_count, token_count |-> token_count,
      token_limit |-> token_limit, provider |-> provider, status |-> status]

\* The info threshold tested before the warn threshold.
validate_file_info_first(file, os_name, chars_per_token, info_pct, warn_pct) ==
  LET char_count == get_char_count(file)
      token_count == estimate_tokens(char_count, chars_per_token)
      provider == get_provider_for_file(file.path, os_name)
      token_limit == get_provider_token_limit(provider)
      info_threshold == PyFloorDiv(token_limit * info_pct, 100)
      warn_threshold == PyFloorDiv(token_limit * warn_pct, 100)
      status == IF token_count > token_limit THEN "error"
                ELSE IF token_count > info_threshold THEN "info"
                ELSE IF token_count > warn_threshold THEN "warning"
                ELSE "ok"
  IN [path |-> file.path, char_count |-> char_count, token_count |-> token_count,
      token_limit |-> token_limit, provider |-> provider, status |-> status]

validate_file(file, os_name, chars_per_token, info_pct, warn_pct) ==
  LET char_count == get_char_count(file)
      token_count == estimate_tokens(char_count, chars_per_token)
      provider == get_provider_for_file(file.path, os_name)
      token_limit == get_provider_token_limit(provider)
      info_threshold == PyFloorDiv(token_limit * info_pct, 100)
      warn_threshold == PyFloorDiv(token_limit * warn_pct, 100)
      status == IF token_count > token_limit THEN "error"
                ELSE IF token_count > warn_threshold THEN "warning"
                ELSE IF token_count > info_threshold THEN "info"
                ELSE "ok"
  IN [path |-> file.path, char_count |-> char_count, token_count |-> token_count,
      token_limit |-> token_limit, provider |-> provider, status |-> status]

\* The warn threshold tested with >= .
validate_category_warn_ge(category_name, total_chars, budget, info_threshold_percent, warn_threshold_percent) ==
  LET info_threshold == PyFloorDiv(budget * info_threshold_percent, 100)
      warn_threshold == PyFloorDiv(budget * warn_threshold_percent, 100)
      status == IF total_chars > budget THEN "error"
                ELSE IF total_chars >= warn_threshold THEN "warning"
                ELSE IF total_chars > info_threshold THEN "info"
                ELSE "ok"
  IN [category_name |-> category_name, total_chars |-> total_chars,
      budget |-> budget, status |-> status]

\* validate_category: the rule of validate_file on a total and a budget
validate_category(category_name, total_chars, budget, info_threshold_percent, warn_threshold_percent) ==
  LET info_threshold == PyFloorDiv(budget * info_threshold_percent, 100)
      warn_threshold == PyFloorDiv(budget * warn_threshold_percent, 100)
      status == IF total_chars > budget THEN "error"
                ELSE IF total_chars > warn_threshold THEN "warning"
                ELSE IF total_chars > info_threshold THEN "info"
                ELSE "ok"
  IN [category_name |-> category_name, total_chars |-> total_chars,
      budget |-> budget, status |-> status]

(***************************************************************************)
(* stats.py                                                                *)
(***************************************************************************)
\* sorted(data)
RECURSIVE InsertSorted(_, _)
InsertSorted(x, s) ==
  IF s = <<>> THEN <<x>>
  ELSE IF x <= Head(s) THEN <<x>> \o s
  ELSE <<Head(s)>> \o InsertSorted(x, Tail(s))

RECURSIVE sorted(_)
sorted(data) ==
  IF data = <<>> THEN <<>> ELSE InsertSorted(Head(data), sorted(Tail(data)))

\* The cut points of the method "inclusive".
quantiles_inclusive(data) ==
  LET s == sorted(data)
      m == Len(s) - 1
      cut(i) == LET j == PyFloorDiv(i * m, 4)
                    delta == i * m - j * 4
                IN s[j + 1] * (4 - delta) + s[j + 2] * delta
  IN <<cut(1), cut(2), cut(3)>>

\* The cut points taken from the data in the order given.
quantiles_unsorted(data) ==
  LET s == data
      ld == Len(s)
      m == ld + 1
      cut(i) == LET j0 == PyFloorDiv(i * m, 4)
                    j == IF j0 < 1 THEN 1 ELSE IF j0 > ld - 1 THEN ld - 1 ELSE j0
                    delta == i * m - j * 4
                IN s[j] * (4 - delta) + s[j + 1] * delta
  IN <<cut(1), cut(2), cut(3)>>

\* statistics.quantiles(data, n=4), method "exclusive", for len(data) >= 2.
\* The result is <<4*Q1, 4*Q2, 4*Q3>>: each cut point is
\* (data[j-1]*(n-delta) + data[j]*delta) / n with n = 4.
quantiles(data) ==
  LET s == sorted(data)
      ld == Len(s)
      m == ld + 1
      cut(i) == LET j0 == PyFloorDiv(i * m, 4)
                    j == IF j0 < 1 THEN 1 ELSE IF j0 > ld - 1 THEN ld - 1 ELSE j0
                    delta == i * m - j * 4
                IN s[j] * (4 - delta) + s[j + 1] * delta
  IN <<cut(1), cut(2), cut(3)>>

\* The absent result (None)
NoStats == [present |-> FALSE]

\* The zero-spread test left out.
compute_baseline_stats_no_spread_test(file_sizes, iqr_multiplier) ==
  IF Len(file_sizes) < 4 THEN NoStats
  ELSE LET q == quantiles(file_sizes)
           den == iqr_multiplier.den
           q1 == q[1] * den
           q3 == q[3] * den
           iqr == q3 - q1
           lower_fence == q1 - iqr_multiplier.num * (q[3] - q[1])
           upper_fence == q3 + iqr_multiplier.num * (q[3] - q[1])
       IN IF FALSE THEN NoStats
          ELSE [present |-> TRUE, q1 |-> q1, q3 |-> q3, iqr |-> iqr,
                lower_fence |-> lower_fence, upper_fence |-> upper_fence,
                file_count |-> Len(file_sizes), scale |-> 4 * den]

\* iqr_multiplier is the fraction num/den (den > 0).  Every statistic of
\* the result is a numerator over result.scale = 4*den.
compute_baseline_stats(file_sizes, iqr_multiplier) ==
  IF Len(file_sizes) < 4 THEN NoStats
  ELSE LET q == quantiles(file_sizes)
           den == iqr_multiplier.den
           q1 == q[1] * den
           q3 == q[3] * den
           iqr == q3 - q1
           lower_fence == q1 - iqr_multiplier.num * (q[3] - q[1])
           upper_fence == q3 + iqr_multiplier.num * (q[3] - q[1])
       IN IF iqr = 0 THEN NoStats
          ELSE [present |-> TRUE, q1 |-> q1, q3 |-> q3, iqr |-> iqr,
                lower_fence |-> lower_fence, upper_fence |-> upper_fence,
                file_count |-> Len(file_sizes), scale |-> 4 * den]

\* The multiplier fixed at 1.5 whatever the argument.
detect_outliers_fixed_multiplier(file_sizes, iqr_multiplier) ==
  IF Len(file_sizes) < 4 THEN [lower |-> <<>>, upper |-> <<>>]
  ELSE LET q == quantiles(file_sizes)
           q1 == q[1] * 2
           q3 == q[3] * 2
           iqr == q3 - q1
           lower_fence == q1 - 3 * (q[3] - q[1])
           upper_fence == q3 + 3 * (q[3] - q[1])
           enumerate == [i \in 1..Len(file_sizes) |-> i - 1]
       IN IF iqr = 0 THEN [lower |-> <<>>, upper |-> <<>>]
          ELSE [lower |-> SelectSeq(enumerate,
                            LAMBDA i : file_sizes[i + 1] * 4 * 2 < lower_fence),
                upper |-> SelectSeq(enumerate,
                            LAMBDA i : file_sizes[i + 1] * 4 * 2 > upper_fence)]

\* The indices taken from the sorted sample instead of the input.
detect_outliers_sorted_index(file_sizes, iqr_multiplier) ==
  IF Len(file_sizes) < 4 THEN [lower |-> <<>>, upper |-> <<>>]
  ELSE LET q == quantiles(file_sizes)
           den == iqr_multiplier.den
           q1 == q[1] * den
           q3 == q[3] * den
           iqr == q3 - q1
           lower_fence == q1 - iqr_multiplier.num * (q[3] - q[1])
           upper_fence == q3 + iqr_multiplier.num * (q[3] - q[1])
           enumerate == [i \in 1..Len(file_sizes) |-> i - 1]
       IN IF iqr = 0 THEN [lower |-> <<>>, upper |-> <<>>]
          ELSE [lower |-> SelectSeq(enumerate,
                            LAMBDA i : sorted(file_sizes)[i + 1] * 4 * den < lower_fence),
                upper |-> SelectSeq(enumerate,
                            LAMBDA i : sorted(file_sizes)[i + 1] * 4 * den > upper_fence)]

\* A size on a fence flagged too.
detect_outliers_at_fence(file_sizes, iqr_multiplier) ==
  IF Len(file_sizes) < 4 THEN [lower |-> <<>>, upper |-> <<>>]
  ELSE LET q == quantiles(file_sizes)
           den == iqr_multiplier.den
           q1 == q[1] * den
           q3 == q[3] * den
           iqr == q3 - q1
           lower_fence == q1 - iqr_multiplier.num * (q[3] - q[1])
           upper_fence == q3 + iqr_multiplier.num * (q[3] - q[1])
           enumerate == [i \in 1..Len(file_sizes) |-> i - 1]
       IN IF iqr = 0 THEN [lower |-> <<>>, upper |-> <<>>]
          ELSE [lower |-> SelectSeq(enumerate,
                            LAMBDA i : file_sizes[i + 1] * 4 * den <= lower_fence),
                upper |-> SelectSeq(enumerate,
                            LAMBDA i : file_sizes[i + 1] * 4 * den >= upper_fence)]

\* The result holds Python (0-based) indices, in increasing order.
detect_outliers(file_sizes, iqr_multiplier) ==
  IF Len(file_sizes) < 4 THEN [lower |-> <<>>, upper |-> <<>>]
  ELSE LET q == quantiles(file_sizes)
           den == iqr_multiplier.den
           q1 == q[1] * den
           q3 == q[3] * den
           iqr == q3 - q1
           lower_fence == q1 - iqr_multiplier.num * (q[3] - q[1])
           upper_fence == q3 + iqr_multiplier.num * (q[3] - q[1])
           enumerate == [i \in 1..Len(file_sizes) |-> i - 1]
       IN IF iqr = 0 THEN [lower |-> <<>>, upper |-> <<>>]
          ELSE [lower |-> SelectSeq(enumerate,
                            LAMBDA i : file_sizes[i + 1] * 4 * den < lower_fence),
                upper |-> SelectSeq(enumerate,
                            LAMBDA i : file_sizes[i + 1] * 4 * den > upper_fence)]

(***************************************************************************)
(* main(): the environment it reads.                                       *)
(***************************************************************************)
\* file_checks of main (the same list in both entry points)
file_checks ==
  << [section |-> "Repository Instructions", pattern |-> PAT_COPILOT],
     [section |-> "Path-Specific Instructions", pattern |-> G_INSTR],
     [section |-> "Prompt Files", pattern |-> G_PROMPT],
     [section |-> "Custom Agents", pattern |-> G_AGENT],
     [section |-> "Multi-Agent Workspace", pattern |-> PAT_AGENTS],
     [section |-> "Multi-Agent Workspace", pattern |-> PAT_CLAUDE],
     [section |-> "Multi-Agent Workspace", pattern |-> PAT_GEMINI],
     [section |-> "Multi-Agent Workspace", pattern |-> PAT_GPT],
     [section |-> "Multi-Agent Workspace", pattern |-> PAT_GROK] >>

\* The platform of the explored runs
RunOs == "posix"

\* repo_root / rel
JoinRoot(rel) == repo_root \o <<"/">> \o rel

\* The contents a file of the working tree may have: 100, 6500 and 9000
\* tokens at 4 characters per token, and a file that cannot be read.
Readable(n) == [content_len |-> n, readable |-> TRUE]
Unreadable(n) == [content_len |-> n, readable |-> FALSE]
SmallFile == Readable(400)
WarnFile == Readable(26000)
BigFile == Readable(36000)

F_instr_a == <<".", "g", "i", "t", "h", "u", "b", "/", "i", "n", "s", "t", "r", "u", "c", "t", "i", "o", "n", "s", "/", "a", ".", "i", "n", "s", "t", "r", "u", "c", "t", "i", "o", "n", "s", ".", "m", "d">>
F_instr_sub_b == <<".", "g", "i", "t", "h", "u", "b", "/", "i", "n", "s", "t", "r", "u", "c", "t", "i", "o", "n", "s", "/", "s", "u", "b", "/", "b", ".", "i", "n", "s", "t", "r", "u", "c", "t", "i", "o", "n", "s", ".", "m", "d">>
F_instr_sub_c == <<".", "g", "i", "t", "h", "u", "b", "/", "i", "n", "s", "t", "r", "u", "c", "t", "i", "o", "n", "s", "/", "s", "u", "b", "/", "c", ".", "i", "n", "s", "t", "r", "u", "c", "t", "i", "o", "n", "s", ".", "m", "d">>
F_instr_sub_d == <<".", "g", "i", "t", "h", "u", "b", "/", "i", "n", "s", "t", "r", "u", "c", "t", "i", "o", "n", "s", "/", "s", "u", "b", "/", "d", ".", "i", "n", "s", "t", "r", "u", "c", "t", "i", "o", "n", "s", ".", "m", "d">>
F_instr_sub_e == <<".", "g", "i", "t", "h", "u", "b", "/", "i", "n", "s", "t", "r", "u", "c", "t", "i", "o", "n", "s", "/", "s", "u", "b", "/", "e", ".", "i", "n", "s", "t", "r", "u", "c", "t", "i", "o", "n", "s", ".", "m", "d">>

\* The files the working tree may hold: the entry of file_checks that
\* discovers each, its path below repo_root and the contents it may have.
Pool ==
  << [check |-> 1, rel |-> PAT_COPILOT, states |-> {SmallFile, BigFile, Unreadable(36000)}],
     [check |-> 2, rel |-> F_instr_a, states |-> {WarnFile, BigFile}],
     [check |-> 2, rel |-> F_instr_sub_b, states |-> {SmallFile, BigFile}],
     [check |-> 5, rel |-> PAT_AGENTS, states |-> {SmallFile, WarnFile}],
     [check |-> 6, rel |-> PAT_CLAUDE, states |-> {BigFile}],
     [check |-> 7, rel |-> PAT_GEMINI, states |-> {SmallFile}],
     [check |-> 8, rel |-> PAT_GPT, states |-> {SmallFile}],
     [check |-> 9, rel |-> PAT_GROK, states |-> {BigFile}] >>

\* The results find_files(repo_root, file_checks[i].pattern) may have with
\* at most budget files: for every candidate of the entry, absent or present
\* with one of its contents.
RECURSIVE FindFrom(_, _, _)
FindFrom(k, i, budget) ==
  IF k > Len(Pool) THEN {<<>>}
  ELSE IF Pool[k].check # i \/ budget = 0 THEN FindFrom(k + 1, i, budget)
  ELSE FindFrom(k + 1, i, budget)
       \cup {<<[path |-> JoinRoot(Pool[k].rel), content_len |-> st.content_len,
                readable |-> st.readable]>> \o rest :
               st \in Pool[k].states, rest \in FindFrom(k + 1, i, budget - 1)}

find_files(i, budget) == FindFrom(1, i, budget)

(***************************************************************************)
(* config.py: load_config (the same function is in                         *)
(* validate_context_limits.py).  A configuration value is the fraction     *)
(* num/den, is_float telling a Python float from an int.                   *)
(***************************************************************************)
PyInt(n) == [is_float |-> FALSE, num |-> n, den |-> 1]
PyFloat(n, d) == [is_float |-> TRUE, num |-> n, den |-> d]

\* "".join(chars)
RECURSIVE Join(_)
Join(s) == IF s = <<>> THEN "" ELSE Head(s) \o Join(Tail(s))

Whitespace == {" ", "\t", "\n", "\r"}

RECURSIVE lstrip(_)
lstrip(s) == IF s # <<>> /\ Head(s) \in Whitespace THEN lstrip(Tail(s)) ELSE s

RECURSIVE rstrip(_)
rstrip(s) ==
  IF s # <<>> /\ s[Len(s)] \in Whitespace THEN rstrip(SubSeq(s, 1, Len(s) - 1)) ELSE s

\* str.strip()
strip(s) == rstrip(lstrip(s))

\* c in s
Contains(s, c) == \E i \in 1..Len(s) : s[i] = c

\* s.split(c, 1) of a text that contains c
FirstIndex(s, c) == CHOOSE i \in 1..Len(s) : s[i] = c /\ \A j \in 1..(i - 1) : s[j] # c
SplitBefore(s, c) == SubSeq(s, 1, FirstIndex(s, c) - 1)
SplitAfter(s, c) == SubSeq(s, FirstIndex(s, c) + 1, Len(s))

Digits == <<"0", "1", "2", "3", "4", "5", "6", "7", "8", "9">>
IsDigit(c) == \E i \in 1..Len(Digits) : Digits[i] = c
DigitValue(c) == (CHOOSE i \in 1..Len(Digits) : Digits[i] = c) - 1
AllDigits(s) == \A i \in 1..Len(s) : IsDigit(s[i])

RECURSIVE DigitsValue(_)
DigitsValue(s) ==
  IF s = <<>> THEN 0
  ELSE 10 * DigitsValue(SubSeq(s, 1, Len(s) - 1)) + DigitValue(s[Len(s)])

RECURSIVE Pow10(_)
Pow10(n) == IF n = 0 THEN 1 ELSE 10 * Pow10(n - 1)

RECURSIVE Gcd(_, _)
Gcd(a, b) == IF b = 0 THEN a ELSE Gcd(b, a % b)

HasSign(s) == s # <<>> /\ Head(s) \in {"+", "-"}
Unsigned(s) == IF HasSign(s) THEN Tail(s) ELSE s
SignOf(s) == IF s # <<>> /\ Head(s) = "-" THEN 0 - 1 ELSE 1

\* int(value) of a text: an optional sign and decimal digits, ValueError
\* otherwise
int_raises(value) == Unsigned(strip(value)) = <<>> \/ ~AllDigits(Unsigned(strip(value)))
int_of_text(value) == PyInt(SignOf(strip(value)) * DigitsValue(Unsigned(strip(value))))

\* float(value) of a text that contains ".": an optional sign and decimal
\* digits around the point, ValueError otherwise
float_raises(value) ==
  LET u == Unsigned(strip(value))
  IN \/ ~Contains(u, ".")
     \/ ~AllDigits(SplitBefore(u, "."))
     \/ ~AllDigits(SplitAfter(u, "."))
     \/ Len(u) = 1
float_of_text(value) ==
  LET u == Unsigned(strip(value))
      whole == SplitBefore(u, ".")
      frac == SplitAfter(u, ".")
      n == DigitsValue(whole \o frac)
      d == Pow10(Len(frac))
      g == Gcd(d, n)
  IN PyFloat(SignOf(strip(value)) * (n \div g), d \div g)

\* The line tested as read, without line.strip().
IsAssignment_unstripped(raw) ==
  /\ raw # <<>>
  /\ Head(raw) # "#"
  /\ Contains(raw, "=")

\* The lines of load_config that take part: not blank, not a comment, with "="
IsAssignment(raw) ==
  /\ strip(raw) # <<>>
  /\ Head(strip(raw)) # "#"
  /\ Contains(strip(raw), "=")
line_key(raw) == Join(strip(SplitBefore(strip(raw), "=")))
line_value(raw) == strip(SplitAfter(strip(raw), "="))
line_raises(raw) ==
  /\ IsAssignment(raw)
  /\ IF Contains(line_value(raw), ".") THEN float_raises(line_value(raw))
     ELSE int_raises(line_value(raw))
parse_value(value) ==
  IF Contains(value, ".") THEN float_of_text(value) ELSE int_of_text(value)

\* for line in f: ... config[key.strip()] = ...
RECURSIVE load_lines(_, _)
load_lines(lines, cfg) ==
  IF lines = <<>> THEN cfg
  ELSE load_lines(Tail(lines),
         IF IsAssignment(Head(lines))
         THEN (line_key(Head(lines)) :> parse_value(line_value(Head(lines)))) @@ cfg
         ELSE cfg)

\* load_config: sys.exit(1) without the file, ValueError on a value that is
\* no number
load_config_exits(file) == ~file.exists
load_config_raises(file) ==
  file.exists /\ \E i \in 1..Len(file.lines) : line_raises(file.lines[i])
load_config(file) == load_lines(file.lines, <<>>)

\* int(v) of a configuration value (a float is truncated towards zero)
py_int(v) == IF v.num >= 0 THEN v.num \div v.den ELSE 0 - ((0 - v.num) \div v.den)

\* The lines the configuration files of the explored runs are made of
L_comment == <<"#", " ", "C", "o", "n", "t", "e", "x", "t", " ", "h", "e", "a", "l", "t", "h", " ", "l", "i", "m", "i", "t", "s">>
L_indented_comment == <<" ", " ", "#", " ", "I", "n", "d", "e", "n", "t", "e", "d", " ", "c", "o", "m", "m", "e", "n", "t">>
L_blank == <<>>
L_cpt_4 == <<"C", "H", "A", "R", "S", "_", "P", "E", "R", "_", "T", "O", "K", "E", "N", "=", "4">>
L_cpt_0 == <<"C", "H", "A", "R", "S", "_", "P", "E", "R", "_", "T", "O", "K", "E", "N", "=", "0">>
L_cpt_neg == <<"C", "H", "A", "R", "S", "_", "P", "E", "R", "_", "T", "O", "K", "E", "N", "=", "-", "4">>
L_cpt_word == <<"C", "H", "A", "R", "S", "_", "P", "E", "R", "_", "T", "O", "K", "E", "N", "=", "f", "o", "u", "r">>
L_cpt_no_equals == <<"C", "H", "A", "R", "S", "_", "P", "E", "R", "_", "T", "O", "K", "E", "N", " ", "4">>
L_info_50 == <<"I", "N", "F", "O", "_", "T", "H", "R", "E", "S", "H", "O", "L", "D", "_", "P", "E", "R", "C", "E", "N", "T", "=", "5", "0">>
L_warn_75 == <<"W", "A", "R", "N", "_", "T", "H", "R", "E", "S", "H", "O", "L", "D", "_", "P", "E", "R", "C", "E", "N", "T", "=", "7", "5">>
L_warn_neg == <<"W", "A", "R", "N", "_", "T", "H", "R", "E", "S", "H", "O", "L", "D", "_", "P", "E", "R", "C", "E", "N", "T", "=", "-", "1", "0">>
L_mult_1_5 == <<"O", "U", "T", "L", "I", "E", "R", "_", "I", "Q", "R", "_", "M", "U", "L", "T", "I", "P", "L", "I", "E", "R", " ", "=", " ", "1", ".", "5">>
L_mult_0_1 == <<"O", "U", "T", "L", "I", "E", "R", "_", "I", "Q", "R", "_", "M", "U", "L", "T", "I", "P", "L", "I", "E", "R", "=", "0", ".", "1">>

DefaultLines == <<L_comment, L_cpt_4, L_blank, L_info_50, L_warn_75, L_mult_1_5>>

\* The defaults of main, as the dict load_config returns for DefaultLines
DefaultConfig ==
  [INFO_THRESHOLD_PERCENT |-> PyInt(50), WARN_THRESHOLD_PERCENT |-> PyInt(75),
   CHARS_PER_TOKEN |-> PyInt(4), OUTLIER_IQR_MULTIPLIER |-> PyFloat(3, 2)]

\* The configuration files of the explored runs: no file,
\* the default file, and files with another multiplier, a ratio of 0, a
\* negative ratio, a negative percentage, a value that is no number and a
\* line without "=".
ConfigFiles ==
  { [exists |-> FALSE, lines |-> <<>>],
    [exists |-> TRUE, lines |-> DefaultLines],
    [exists |-> TRUE, lines |-> <<L_cpt_4, L_info_50, L_warn_75, L_mult_0_1>>],
    [exists |-> TRUE, lines |-> <<L_cpt_0, L_info_50, L_warn_75>>],
    [exists |-> TRUE, lines |-> <<L_cpt_neg, L_info_50, L_warn_75>>],
    [exists |-> TRUE, lines |-> <<L_cpt_4, L_info_50, L_warn_neg>>],
    [exists |-> TRUE, lines |-> <<L_cpt_word, L_info_50, L_warn_75>>],
    [exists |-> TRUE, lines |-> <<L_indented_comment, L_cpt_no_equals, L_info_50>>] }

\* dict.get(key, default)
dict_get(d, key, default) == IF key \in DOMAIN d THEN d[key] ELSE default

\* What git answers at the reference revision: whether the git executable
\* can be run at all, the outcome of "git diff --name-only", of
\* "git ls-tree -r --name-only" and of "git show ref:path" (the length of the
\* text for the paths it succeeds on, the paths it exits non-zero on and the
\* paths whose content is no UTF-8 text).
RefTree ==
  << [path |-> F_instr_sub_b, size |-> 400],
     [path |-> F_instr_sub_c, size |-> 420],
     [path |-> F_instr_sub_d, size |-> 440],
     [path |-> F_instr_sub_e, size |-> 4000],
     [path |-> F_instr_a, size |-> 400],
     [path |-> PAT_AGENTS, size |-> 400] >>

\* A reference revision whose four instruction files have one size and
\* that holds four of the Multi-Agent Workspace files
TeamTree ==
  << [path |-> F_instr_sub_b, size |-> 400],
     [path |-> F_instr_sub_c, size |-> 400],
     [path |-> F_instr_sub_d, size |-> 400],
     [path |-> F_instr_sub_e, size |-> 400],
     [path |-> PAT_AGENTS, size |-> 400],
     [path |-> PAT_CLAUDE, size |-> 420],
     [path |-> PAT_GEMINI, size |-> 440],
     [path |-> PAT_GPT, size |-> 4000] >>

GitWorlds ==
  { [available |-> FALSE, diff_ok |-> FALSE, diff |-> <<>>, ls_ok |-> FALSE,
     ls |-> <<>>, unshowable |-> {}, undecodable |-> {}],
    [available |-> TRUE, diff_ok |-> FALSE, diff |-> <<>>, ls_ok |-> FALSE,
     ls |-> <<>>, unshowable |-> {}, undecodable |-> {}],
    [available |-> TRUE, diff_ok |-> TRUE, diff |-> <<F_instr_sub_b>>,
     ls_ok |-> TRUE, ls |-> RefTree, unshowable |-> {}, undecodable |-> {}],
    [available |-> TRUE, diff_ok |-> TRUE, diff |-> <<F_instr_a, F_instr_sub_b>>,
     ls_ok |-> TRUE, ls |-> RefTree, unshowable |-> {F_instr_sub_e}, undecodable |-> {}],
    [available |-> TRUE, diff_ok |-> TRUE, diff |-> <<F_instr_a>>,
     ls_ok |-> TRUE, ls |-> RefTree, unshowable |-> {}, undecodable |-> {PAT_AGENTS}],
    [available |-> TRUE, diff_ok |-> TRUE, diff |-> <<F_instr_sub_b, PAT_CLAUDE>>,
     ls_ok |-> TRUE, ls |-> TeamTree, unshowable |-> {}, undecodable |-> {}] }

(***************************************************************************)
(* git_utils.py (the same functions are in validate_context_limits.py)     *)
(***************************************************************************)
\* str.split("/") of a path
RECURSIVE SplitPath(_)
SplitPath(path) ==
  IF \A i \in 1..Len(path) : path[i] # "/" THEN <<path>>
  ELSE LET cut == CHOOSE i \in 1..Len(path) :
                    path[i] = "/" /\ \A j \in 1..(i - 1) : path[j] # "/"
       IN <<SubSeq(path, 1, cut - 1)>> \o SplitPath(SubSeq(path, cut + 1, Len(path)))

\* PurePath(path).match(pattern) for a relative pattern: the components are
\* matched one to one from the right, "**" as any one component.
PathMatch(path, pattern) ==
  LET parts == SplitPath(path)
      pat_parts == SplitPath(pattern)
  IN /\ Len(pat_parts) <= Len(parts)
     /\ \A k \in 0..(Len(pat_parts) - 1) :
          fnmatchcase(parts[Len(parts) - k], pat_parts[Len(pat_parts) - k])

\* subprocess.run raises FileNotFoundError when git cannot be executed;
\* only CalledProcessError is caught
get_changed_files_raises(git) == ~git.available

\* The paths of the changed files, [] when git diff fails
get_changed_files(git) ==
  IF git.diff_ok THEN [k \in 1..Len(git.diff) |-> JoinRoot(git.diff[k])] ELSE <<>>

\* subprocess.run(text=True) raises UnicodeDecodeError on the output of
\* git show that is no UTF-8 text, FileNotFoundError without git
get_baseline_file_sizes_raises(patterns, git) ==
  \/ ~git.available
  \/ /\ git.ls_ok
     /\ \E k \in 1..Len(git.ls) : \E pattern \in patterns :
          git.ls[k].path \in git.undecodable /\ PathMatch(git.ls[k].path, pattern)

\* The dict pattern -> [(path, size)]; the empty dict when git ls-tree
\* fails, a file left out when git show fails on it.
get_baseline_file_sizes(patterns, git) ==
  IF ~git.ls_ok THEN <<>>
  ELSE [pattern \in patterns |->
          SelectSeq(git.ls, LAMBDA f : /\ PathMatch(f.path, pattern)
                                       /\ f.path \notin git.unshowable)]

(***************************************************************************)
(* main()                                                                  *)
(***************************************************************************)
instruction_patterns == {file_checks[i].pattern : i \in 1..Len(file_checks)}

RECURSIVE Flatten(_)
Flatten(seqs) == IF seqs = <<>> THEN <<>> ELSE Head(seqs) \o Flatten(Tail(seqs))

\* category_totals[section] = category_totals.get(section, 0) + tokens
AddTotal(totals, section, tokens) ==
  (section :> (dict_get(totals, section, 0) + tokens)) @@ totals

\* category_files[section].append((path, tokens)), the key created on first use
AppendFile(cat_files, section, item) ==
  IF \E k \in 1..Len(cat_files) : cat_files[k].category = section
  THEN [k \in 1..Len(cat_files) |->
          IF cat_files[k].category = section
          THEN [cat_files[k] EXCEPT !.files = Append(@, item)]
          ELSE cat_files[k]]
  ELSE Append(cat_files, [category |-> section, files |-> <<item>>])

\* The first pattern file_checks declares for a section
cat_pattern_of(category) ==
  file_checks[CHOOSE i \in 1..Len(file_checks) :
                /\ file_checks[i].section = category
                /\ \A j \in 1..(i - 1) : file_checks[j].section # category].pattern

\* [size for _, size in baseline_data.get(pattern, [])]
baseline_sizes(ref_files) == [k \in 1..Len(ref_files) |-> ref_files[k].size]

\* Every file compared with the fences, changed or not.
BaselineFileLine_unrestricted(category, f, changed_set, stats) ==
  IF f.tokens * stats.scale < stats.lower_fence
       THEN <<[kind |-> "outlier", category |-> category, path |-> f.path,
               tokens |-> f.tokens, side |-> "below"]>>
  ELSE IF f.tokens * stats.scale > stats.upper_fence
       THEN <<[kind |-> "outlier", category |-> category, path |-> f.path,
               tokens |-> f.tokens, side |-> "above"]>>
  ELSE <<>>

\* Baseline comparison mode, the line of one file of a category with stats
BaselineFileLine(category, f, changed_set, stats) ==
  IF f.path \notin changed_set THEN <<>>
  ELSE IF f.tokens * stats.scale < stats.lower_fence
       THEN <<[kind |-> "outlier", category |-> category, path |-> f.path,
               tokens |-> f.tokens, side |-> "below"]>>
  ELSE IF f.tokens * stats.scale > stats.upper_fence
       THEN <<[kind |-> "outlier", category |-> category, path |-> f.path,
               tokens |-> f.tokens, side |-> "above"]>>
  ELSE <<>>

\* A category without baseline statistics passed over without a line.
BaselineCategoryLines_silent(cat, changed_set, stats) ==
  IF ~stats.present
  THEN <<>>
  ELSE Flatten([k \in 1..Len(cat.files) |->
                  BaselineFileLine(cat.category, cat.files[k], changed_set, stats)])

\* Baseline comparison mode, the lines of one category given its stats
BaselineCategoryLines(cat, changed_set, stats) ==
  IF ~stats.present
  THEN <<[kind |-> "insufficient", category |-> cat.category]>>
  ELSE Flatten([k \in 1..Len(cat.files) |->
                  BaselineFileLine(cat.category, cat.files[k], changed_set, stats)])

\* Baseline comparison mode, the lines of one category
BaselineLines(cat, changed_set, baseline_data, iqr_multiplier) ==
  BaselineCategoryLines(cat, changed_set,
    compute_baseline_stats(
      baseline_sizes(dict_get(baseline_data, cat_pattern_of(cat.category), <<>>)),
      iqr_multiplier))

\* Standard mode, the line of one flagged index
StandardLine(cat, idx, median_tokens, side) ==
  [kind |-> "outlier", category |-> cat.category,
   path |-> cat.files[idx + 1].path, tokens |-> cat.files[idx + 1].tokens,
   diff |-> cat.files[idx + 1].tokens - median_tokens, side |-> side]

\* Standard mode, the lines of the flagged indices of one category
StandardFlagged(cat, found, median_tokens) ==
  [k \in 1..Len(found.lower) |-> StandardLine(cat, found.lower[k], median_tokens, "LOW")]
  \o [k \in 1..Len(found.upper) |-> StandardLine(cat, found.upper[k], median_tokens, "HIGH")]

\* sorted(token_sizes)[len(token_sizes) // 2]
median_of(token_sizes) == sorted(token_sizes)[(Len(token_sizes) \div 2) + 1]

\* [tokens for _, tokens in files_list]
token_sizes_of(files_list) == [k \in 1..Len(files_list) |-> files_list[k].tokens]

\* Standard mode, the lines of one category
StandardLines(cat, iqr_multiplier) ==
  IF Len(cat.files) < 4 THEN <<>>
  ELSE StandardFlagged(cat,
         detect_outliers(token_sizes_of(cat.files), iqr_multiplier),
         median_of(token_sizes_of(cat.files)))

\* "No outliers ..." is printed when no line reports an outlier
WithNoOutliersLine(lines) ==
  IF \E k \in 1..Len(lines) : lines[k].kind = "outlier" THEN lines
  ELSE Append(lines, [kind |-> "no_outliers"])

\* {str(p) for p in changed_files}
changed_set_of(changed_files) == {changed_files[k] : k \in 1..Len(changed_files)}

\* int(config.get(key, default))
config_int(cfg, key, default) == py_int(dict_get(cfg, key, PyInt(default)))

\* config.get("OUTLIER_IQR_MULTIPLIER", 1.5)
iqr_multiplier_of(cfg) ==
  [num |-> dict_get(cfg, "OUTLIER_IQR_MULTIPLIER", PyFloat(3, 2)).num,
   den |-> dict_get(cfg, "OUTLIER_IQR_MULTIPLIER", PyFloat(3, 2)).den]

\* The outlier analysis of the script, the lines it prints
OutlierAnalysis(cat_files, cfg, ref, git) ==
  WithNoOutliersLine(
    IF ref # ""
    THEN Flatten([k \in 1..Len(cat_files) |->
            BaselineLines(cat_files[k], changed_set_of(get_changed_files(git)),
                          get_baseline_file_sizes(instruction_patterns, git),
                          iqr_multiplier_of(cfg))])
    ELSE Flatten([k \in 1..Len(cat_files) |->
            StandardLines(cat_files[k],
                          iqr_multiplier_of(cfg))]))

MainIdle ==
  /\ entry = "none" /\ compare_to = "" /\ config_file = [exists |-> FALSE, lines |-> <<>>]
  /\ git_env = {}
  /\ config = <<>> /\ pc = "idle" /\ check_i = 0 /\ files = <<>>
  /\ errors = 0 /\ warnings = 0 /\ current_section = ""
  /\ section_total_tokens = 0 /\ section_files = 0
  /\ overall_total_tokens = 0 /\ overall_files = 0
  /\ category_totals = <<>> /\ category_files = <<>>
  /\ results = <<>> /\ output = <<>> /\ exit_code = 0 - 1

Init ==
  /\ call_args = [fn |-> "none"] /\ call_ret = [state |-> "pending"]
  /\ entry \in {"script", "package"}
  /\ compare_to \in {"", "origin/main"}
  /\ config_file \in ConfigFiles
  /\ git_env = {}
  /\ config = <<>> /\ pc = "start" /\ check_i = 0 /\ files = <<>>
  /\ errors = 0 /\ warnings = 0 /\ current_section = ""
  /\ section_total_tokens = 0 /\ section_files = 0
  /\ overall_total_tokens = 0 /\ overall_files = 0
  /\ category_totals = <<>> /\ category_files = <<>>
  /\ results = <<>> /\ output = <<>> /\ exit_code = 0 - 1

\* A warning counted as an error.
errors_after_counting_warnings(errs, status) ==
  IF status \in {"error", "warning"} THEN errs + 1 ELSE errs

\* errors += 1 in the "error" branch
errors_after(errs, status) == IF status = "error" THEN errs + 1 ELSE errs

\* warnings += 1 in the "warning" branch
warnings_after(warns, status) == IF status = "warning" THEN warns + 1 ELSE warns

\* return 1 if errors > 0, else 0
main_exit_code(errs) == IF errs > 0 THEN 1 ELSE 0

\* parse_args and load_config: sys.exit(1) when the file does not exist
LoadConfig ==
  /\ pc = "start"
  /\ IF load_config_exits(config_file) THEN pc' = "exited" /\ config' = config
     ELSE IF load_config_raises(config_file) THEN pc' = "raised" /\ config' = config
     ELSE pc' = "loop" /\ config' = load_config(config_file)
  /\ UNCHANGED <<callVars, entry, compare_to, config_file, git_env, check_i, files, errors,
                 warnings, current_section, section_total_tokens, section_files,
                 overall_total_tokens, overall_files, category_totals,
                 category_files, results, output, exit_code>>

\* for section, pattern in file_checks: files = find_files(repo_root, pattern)
NextCheck ==
  /\ pc = "loop" /\ files = <<>> /\ check_i < Len(file_checks)
  /\ check_i' = check_i + 1
  /\ files' \in find_files(check_i + 1, MaxFiles - overall_files)
  /\ UNCHANGED <<callVars, entry, compare_to, config_file, git_env, config, pc, errors,
                 warnings, current_section, section_total_tokens, section_files,
                 overall_total_tokens, overall_files, category_totals,
                 category_files, results, output, exit_code>>

\* One iteration of "for file_path in files"
ValidateNext ==
  /\ pc = "loop" /\ files # <<>>
  /\ LET file_path == Head(files)
         section == file_checks[check_i].section
         info_pct == config_int(config, "INFO_THRESHOLD_PERCENT", 50)
         warn_pct == config_int(config, "WARN_THRESHOLD_PERCENT", 75)
         chars_per_token == config_int(config, "CHARS_PER_TOKEN", 4)
         switch == section # current_section
         totals1 == IF switch /\ current_section # ""
                    THEN AddTotal(category_totals, current_section, section_total_tokens)
                    ELSE category_totals
         section_tokens1 == IF switch THEN 0 ELSE section_total_tokens
         section_files1 == IF switch THEN 0 ELSE section_files
         result == validate_file(file_path, RunOs, chars_per_token, info_pct, warn_pct)
         tok == result.token_count
     IN /\ current_section' = section
        /\ category_totals' = totals1
        /\ IF validate_file_raises(file_path, RunOs, chars_per_token, info_pct, warn_pct)
           THEN /\ pc' = "raised"
                /\ section_total_tokens' = section_tokens1
                /\ section_files' = section_files1
                /\ UNCHANGED <<files, errors, warnings, overall_total_tokens,
                               overall_files, category_files, results>>
           ELSE /\ pc' = pc
                /\ files' = Tail(files)
                /\ section_total_tokens' = section_tokens1 + tok
                /\ section_files' = section_files1 + 1
                /\ overall_total_tokens' = overall_total_tokens + tok
                /\ overall_files' = overall_files + 1
                /\ category_files' = IF entry = "script"
                                     THEN AppendFile(category_files, section,
                                            [path |-> file_path.path, tokens |-> tok])
                                     ELSE category_files
                /\ errors' = errors_after(errors, result.status)
                /\ warnings' = warnings_after(warnings, result.status)
                /\ results' = Append(results, result)
  /\ UNCHANGED <<callVars, entry, compare_to, config_file, git_env, config, check_i,
                 output, exit_code>>

\* validate_context_limits.py after the loop: the last section total, the
\* outlier analysis and the exit code
FinishScript ==
  /\ entry = "script"
  /\ pc = "loop" /\ files = <<>> /\ check_i = Len(file_checks)
  /\ category_totals' = IF current_section # ""
                        THEN AddTotal(category_totals, current_section,
                                      section_total_tokens)
                        ELSE category_totals
  /\ IF compare_to # ""
     THEN \E git \in GitWorlds :
            /\ git_env' = {git}
            /\ IF \/ get_changed_files_raises(git)
                  \/ get_baseline_file_sizes_raises(instruction_patterns, git)
               THEN pc' = "raised" /\ UNCHANGED <<output, exit_code>>
               ELSE /\ pc' = "done"
                    /\ output' = OutlierAnalysis(category_files, config, compare_to, git)
                    /\ exit_code' = main_exit_code(errors)
     ELSE /\ git_env' = git_env
          /\ pc' = "done"
          /\ output' = OutlierAnalysis(category_files, config, compare_to,
                                       CHOOSE git \in GitWorlds : ~git.available)
          /\ exit_code' = main_exit_code(errors)
  /\ UNCHANGED <<callVars, entry, compare_to, config_file, config, check_i, files,
                 errors, warnings, current_section, section_total_tokens,
                 section_files, overall_total_tokens, overall_files,
                 category_files, results>>

\* context_validator/main.py after the loop: the totals and the exit code
FinishPackage ==
  /\ entry = "package"
  /\ pc = "loop" /\ files = <<>> /\ check_i = Len(file_checks)
  /\ pc' = "done"
  /\ exit_code' = main_exit_code(errors)
  /\ UNCHANGED <<callVars, entry, compare_to, config_file, git_env, config, check_i, files,
                 errors, warnings, current_section, section_total_tokens,
                 section_files, overall_total_tokens, overall_files,
                 category_totals, category_files, results, output>>

Next ==
  \/ LoadConfig
  \/ NextCheck
  \/ ValidateNext
  \/ FinishScript
  \/ FinishPackage

Spec == Init /\ [][Next]_vars

(***************************************************************************)
(* Inputs of the explored calls.                                           *)
(***************************************************************************)
N_README == <<"R", "E", "A", "D", "M", "E", ".", "m", "d">>
N_claude == <<"c", "l", "a", "u", "d", "e", ".", "m", "d">>
N_XCLAUDE == <<"X", "C", "L", "A", "U", "D", "E", ".", "m", "d">>
N_CLAUDE_bak == <<"C", "L", "A", "U", "D", "E", ".", "m", "d", ".", "b", "a", "k">>
N_a_instr == <<"a", ".", "i", "n", "s", "t", "r", "u", "c", "t", "i", "o", "n", "s", ".", "m", "d">>
N_copilot == <<"c", "o", "p", "i", "l", "o", "t", "-", "i", "n", "s", "t", "r", "u", "c", "t", "i", "o", "n", "s", ".", "m", "d">>
D_docs == <<"d", "o", "c", "s", "/">>
D_github == <<".", "g", "i", "t", "h", "u", "b", "/">>
D_instr == <<".", "g", "i", "t", "h", "u", "b", "/", "i", "n", "s", "t", "r", "u", "c", "t", "i", "o", "n", "s", "/">>
D_back == <<"d", "o", "c", "s", "\\">>
D_root == <<"/", "r", "e", "p", "o", "/">>

OsNames == {"posix", "nt"}

TestNames ==
  { PAT_CLAUDE, PAT_GEMINI, PAT_GPT, PAT_OPENAI, PAT_GROK, PAT_XAI, PAT_AGENTS,
    N_README,
    N_claude,
    N_XCLAUDE,
    N_CLAUDE_bak,
    N_a_instr,
    N_copilot }

TestDirs ==
  { <<>>,
    D_docs,
    D_github,
    D_instr,
    D_back,
    D_root }

TestPaths == {d \o n : d \in TestDirs, n \in TestNames}

TestProviderKeys == ProviderKeys \cup {"unknown", "", "Default", "ANTHROPIC"}

PctValues == {0, 50, 75, 100, 150}

\* Character counts within Slack of the sizes at which the token count meets
\* 0, the info threshold, the warn threshold and the limit.
BoundarySizes(token_limit, chars_per_token, info_pct, warn_pct) ==
  LET marks == {0, PyFloorDiv(token_limit * info_pct, 100),
                PyFloorDiv(token_limit * warn_pct, 100), token_limit}
  IN {c \in {chars_per_token * tk + d : tk \in marks, d \in (0 - Slack)..Slack} : c >= 0}

ValidatePaths == {PAT_AGENTS, PAT_CLAUDE, PAT_GEMINI, PAT_GPT, PAT_GROK}

SizeValues == {1, 2, 4, 9}

RECURSIVE SeqsUpTo(_, _)
SeqsUpTo(S, n) ==
  IF n = 0 THEN {<<>>}
  ELSE LET shorter == SeqsUpTo(S, n - 1)
       IN shorter \cup {Append(q, x) : q \in {r \in shorter : Len(r) = n - 1}, x \in S}

ExampleSizes ==
  { <<100, 101, 102, 103, 104, 105, 106, 5000>>,
    <<1, 1000, 1000, 1000, 1000>>,
    <<100, 100, 100, 100>>,
    <<5000, 100, 101, 102, 1, 103, 104, 105>> }

TestSizes == SeqsUpTo(SizeValues, MaxLen) \cup ExampleSizes

Multipliers ==
  { [num |-> 0, den |-> 1], [num |-> 1, den |-> 10], [num |-> 1, den |-> 2],
    [num |-> 3, den |-> 2], [num |-> 3, den |-> 1], [num |-> 0 - 1, den |-> 2],
    [num |-> 0 - 1, den |-> 1] }

CallInputs ==
  {[fn |-> "estimate_tokens", char_count |-> c, chars_per_token |-> k] :
      c \in 0..MaxChars, k \in (0 - 1)..MaxCpt}
  \cup {[fn |-> "get_provider_for_file", file_path |-> p, os_name |-> o] :
      p \in TestPaths, o \in OsNames}
  \cup {[fn |-> "get_provider_token_limit", provider_key |-> k] :
      k \in TestProviderKeys}
  \cup UNION {UNION {UNION {UNION {
         {[fn |-> "validate_file",
           file |-> [path |-> p, content_len |-> c, readable |-> r],
           os_name |-> "posix", chars_per_token |-> k,
           info_pct |-> ip, warn_pct |-> wp] :
            c \in BoundarySizes(get_provider_token_limit(
                                  get_provider_for_file(p, "posix")), k, ip, wp),
            r \in BOOLEAN} :
         wp \in PctValues} : ip \in PctValues} : k \in 0..MaxCpt} : p \in ValidatePaths}
  \cup {[fn |-> f, file_sizes |-> z, iqr_multiplier |-> m] :
      f \in {"compute_baseline_stats", "detect_outliers"},
      z \in TestSizes, m \in Multipliers}

\* Lines of the configuration files load_config is called on
L_key_100 == <<"K", "E", "Y", "=", "1", "0", "0">>
L_key_spaced == <<" ", "K", "E", "Y", " ", "=", " ", "7", " ">>
L_key1_100 == <<"K", "E", "Y", "1", "=", "1", "0", "0">>
L_key2_200 == <<"K", "E", "Y", "2", "=", "2", "0", "0">>
L_indented_assign == <<" ", " ", "#", " ", "K", "E", "Y", "=", "5">>

LinePool ==
  {L_comment, L_indented_comment, L_indented_assign, L_blank, L_key_100, L_key_spaced,
   L_key1_100, L_key2_200, L_mult_1_5, L_cpt_word, L_cpt_no_equals}

LoadConfigInputs ==
  {[fn |-> "load_config", file |-> [exists |-> e, lines |-> ls]] :
      e \in BOOLEAN, ls \in SeqsUpTo(LinePool, MaxLines)}

ValidateCategoryInputs ==
  {[fn |-> "validate_category", category_name |-> "path_instructions",
    total_chars |-> t, budget |-> b, info_pct |-> ip, warn_pct |-> wp] :
      t \in 0..(MaxChars + Slack), b \in 0..MaxChars, ip \in PctValues, wp \in PctValues}

Pending == [state |-> "pending"]
Returned(v) == [state |-> "returned", value |-> v]
Raised(e) == [state |-> "raised", exc |-> e]

(***************************************************************************)
(* One call of one function: Init draws the arguments, the action of the   *)
(* called function applies it.                                             *)
(***************************************************************************)
InitCalls ==
  /\ call_args \in CallInputs \cup LoadConfigInputs \cup ValidateCategoryInputs
  /\ call_ret = Pending
  /\ MainIdle

CallEstimateTokens ==
  /\ call_ret = Pending /\ call_args.fn = "estimate_tokens"
  /\ call_ret' = IF estimate_tokens_raises(call_args.char_count, call_args.chars_per_token)
                 THEN Raised("ZeroDivisionError")
                 ELSE Returned(estimate_tokens(call_args.char_count,
                                               call_args.chars_per_token))
  /\ UNCHANGED <<call_args, mainVars>>

CallGetProviderForFile ==
  /\ call_ret = Pending /\ call_args.fn = "get_provider_for_file"
  /\ call_ret' = Returned(get_provider_for_file(call_args.file_path, call_args.os_name))
  /\ UNCHANGED <<call_args, mainVars>>

CallGetProviderTokenLimit ==
  /\ call_ret = Pending /\ call_args.fn = "get_provider_token_limit"
  /\ call_ret' = IF get_provider_token_limit_raises(call_args.provider_key)
                 THEN Raised("KeyError")
                 ELSE Returned(get_provider_token_limit(call_args.provider_key))
  /\ UNCHANGED <<call_args, mainVars>>

CallValidateFile ==
  /\ call_ret = Pending /\ call_args.fn = "validate_file"
  /\ call_ret' = IF validate_file_raises(call_args.file, call_args.os_name,
                       call_args.chars_per_token, call_args.info_pct, call_args.warn_pct)
                 THEN Raised("ZeroDivisionError")
                 ELSE Returned(validate_file(call_args.file, call_args.os_name,
                       call_args.chars_per_token, call_args.info_pct, call_args.warn_pct))
  /\ UNCHANGED <<call_args, mainVars>>

CallValidateCategory ==
  /\ call_ret = Pending /\ call_args.fn = "validate_category"
  /\ call_ret' = Returned(validate_category(call_args.category_name, call_args.total_chars,
                             call_args.budget, call_args.info_pct, call_args.warn_pct))
  /\ UNCHANGED <<call_args, mainVars>>

CallLoadConfig ==
  /\ call_ret = Pending /\ call_args.fn = "load_config"
  /\ call_ret' = IF load_config_exits(call_args.file) THEN Raised("SystemExit")
                 ELSE IF load_config_raises(call_args.file) THEN Raised("ValueError")
                 ELSE Returned(load_config(call_args.file))
  /\ UNCHANGED <<call_args, mainVars>>

CallComputeBaselineStats ==
  /\ call_ret = Pending /\ call_args.fn = "compute_baseline_stats"
  /\ call_ret' = Returned(compute_baseline_stats(call_args.file_sizes,
                                                 call_args.iqr_multiplier))
  /\ UNCHANGED <<call_args, mainVars>>

CallDetectOutliers ==
  /\ call_ret = Pending /\ call_args.fn = "detect_outliers"
  /\ call_ret' = Returned(detect_outliers(call_args.file_sizes, call_args.iqr_multiplier))
  /\ UNCHANGED <<call_args, mainVars>>

NextCalls ==
  \/ CallEstimateTokens
  \/ CallGetProviderForFile
  \/ CallGetProviderTokenLimit
  \/ CallValidateFile
  \/ CallValidateCategory
  \/ CallLoadConfig
  \/ CallComputeBaselineStats
  \/ CallDetectOutliers

SpecCalls == InitCalls /\ [][NextCalls]_vars

(***************************************************************************)
(* Properties of the single calls (checked under SpecCalls).               *)
(***************************************************************************)
Rank(status) ==
  IF status = "ok" THEN 0 ELSE IF status = "info" THEN 1
  ELSE IF status = "warning" THEN 2 ELSE 3

ReturnedFrom(fn) == call_args.fn = fn /\ call_ret.state = "returned"

\* For integers t and x: t > floor(x / 100) iff 100 * t > x, and
\* t = floor(x / 100) iff 100 * t <= x < 100 * (t + 1).
Exceeds(t, x) == 100 * t > x
IsFloor(t, x) == 100 * t <= x /\ x < 100 * (t + 1)

\* C1: validate_file assigns the severity by strict greater-than against
\* the limit, floor(limit*warnPct/100) and floor(limit*infoPct/100), in that
\* order; a token count equal to the info (warn) threshold is not classified
\* "info" ("warning").
C1_SeverityRule ==
  ReturnedFrom("validate_file") =>
    LET r == call_ret.value
        t == r.token_count
        overWarn == Exceeds(t, r.token_limit * call_args.warn_pct)
        overInfo == Exceeds(t, r.token_limit * call_args.info_pct)
    IN /\ r.status \in {"ok", "info", "warning", "error"}
       /\ r.status = "error" <=> t > r.token_limit
       /\ r.status = "warning" <=> (t <= r.token_limit /\ overWarn)
       /\ r.status = "info" <=> (t <= r.token_limit /\ ~overWarn /\ overInfo)
       /\ r.status = "ok" <=> (t <= r.token_limit /\ ~overWarn /\ ~overInfo)
       /\ IsFloor(t, r.token_limit * call_args.info_pct) => r.status # "info"
       /\ IsFloor(t, r.token_limit * call_args.warn_pct) => r.status # "warning"

\* A file whose token count is exactly the (positive) info threshold, below
\* the warn threshold, was classified "ok".
C1_Witness ==
  /\ ReturnedFrom("validate_file")
  /\ call_ret.value.token_count > 0
  /\ call_args.info_pct < call_args.warn_pct
  /\ 100 * call_ret.value.token_count = call_ret.value.token_limit * call_args.info_pct
  /\ call_ret.value.status = "ok"

\* C2 as stated: for every infoPct/warnPct a token count equal to the
\* limit is "warning" and limit+1 is "error".
C2_AtLimitAlwaysWarning ==
  ReturnedFrom("validate_file") =>
    LET r == call_ret.value
    IN /\ r.token_count = r.token_limit => r.status = "warning"
       /\ r.token_count = r.token_limit + 1 => r.status = "error"

\* C2 (amended): a token count equal to the limit is never "error" and is
\* "warning" exactly when warnPct < 100; a token count of limit+1 is
\* "error" for every infoPct/warnPct.
C2_AtLimit ==
  ReturnedFrom("validate_file") =>
    LET r == call_ret.value
    IN /\ r.token_count = r.token_limit =>
            /\ r.status # "error"
            /\ r.status = "warning" <=> call_args.warn_pct < 100
       /\ r.token_count = r.token_limit + 1 => r.status = "error"

\* A file sized exactly at the limit, with warnPct = 75, was classified
\* "warning".
C2_Witness ==
  /\ ReturnedFrom("validate_file")
  /\ call_ret.value.token_count = call_ret.value.token_limit
  /\ call_args.warn_pct = 75
  /\ call_ret.value.status = "warning"

\* C3: severity is monotonic in tokens: the same file with any smaller
\* size (hence no more tokens), under the same limit and percentages, is
\* classified no higher.
C3_Monotonic ==
  (ReturnedFrom("validate_file") /\ call_args.file.readable) =>
    LET r == call_ret.value
        limit == r.token_limit
        smaller == {c \in BoundarySizes(limit, call_args.chars_per_token,
                                        call_args.info_pct, call_args.warn_pct) :
                      c <= call_args.file.content_len}
    IN \A c \in smaller :
         LET r1 == validate_file([call_args.file EXCEPT !.content_len = c],
                                 call_args.os_name, call_args.chars_per_token,
                                 call_args.info_pct, call_args.warn_pct)
         IN r1.token_count <= r.token_count => Rank(r1.status) <= Rank(r.status)

\* With infoPct > warnPct, a file classified "warning" whose size lies above
\* the info threshold (so that both thresholds are below it).
C3_Witness ==
  /\ ReturnedFrom("validate_file") /\ call_args.file.readable
  /\ call_args.info_pct > call_args.warn_pct
  /\ call_args.warn_pct > 0
  /\ call_ret.value.status = "warning"
  /\ Exceeds(call_ret.value.token_count,
             call_ret.value.token_limit * call_args.info_pct)

\* C4: for charsPerToken > 0, estimate_tokens returns the least integer t
\* with t * charsPerToken >= charCount, and 0 for charCount = 0.
C4_Ceiling ==
  (call_args.fn = "estimate_tokens" /\ call_ret # Pending
     /\ call_args.chars_per_token > 0) =>
    /\ call_ret.state = "returned"
    /\ call_ret.value * call_args.chars_per_token >= call_args.char_count
    /\ (call_ret.value - 1) * call_args.chars_per_token < call_args.char_count
    /\ call_args.char_count = 0 => call_ret.value = 0

\* A character count that is not a multiple of the ratio was rounded up.
C4_Witness ==
  /\ ReturnedFrom("estimate_tokens")
  /\ call_args.chars_per_token > 1
  /\ call_ret.value * call_args.chars_per_token > call_args.char_count

\* C6: get_provider_for_file returns the first non-fallback profile, in
\* declaration order, one of whose patterns matches the filename or the
\* forward-slash path, and "default" when there is none; CLAUDE.md is
\* anthropic, GEMINI.md google, AGENTS.md and .github/copilot-instructions.md
\* default, an unrecognised name default.
C6_Matches(i) ==
  /\ LLM_PROVIDERS[i].key # "default"
  /\ \E j \in 1..Len(LLM_PROVIDERS[i].file_patterns) :
       \/ fnmatch(PathName(call_args.file_path, call_args.os_name),
                  LLM_PROVIDERS[i].file_patterns[j], call_args.os_name)
       \/ fnmatch(ReplaceChar(PathStr(call_args.file_path, call_args.os_name), "\\", "/"),
                  LLM_PROVIDERS[i].file_patterns[j], call_args.os_name)

C6_ProviderResolution ==
  ReturnedFrom("get_provider_for_file") =>
    LET hits == {i \in 1..Len(LLM_PROVIDERS) : C6_Matches(i)}
    IN /\ hits = {} => call_ret.value = "default"
       /\ hits # {} =>
            \E i \in hits : /\ \A k \in hits : i <= k
                            /\ call_ret.value = LLM_PROVIDERS[i].key
       /\ call_args.file_path = PAT_CLAUDE => call_ret.value = "anthropic"
       /\ call_args.file_path = PAT_GEMINI => call_ret.value = "google"
       /\ call_args.file_path = PAT_AGENTS => call_ret.value = "default"
       /\ call_args.file_path = PAT_COPILOT => call_ret.value = "default"
       /\ call_args.file_path = N_README => call_ret.value = "default"
       /\ call_args.file_path = D_docs \o PAT_CLAUDE => call_ret.value = "anthropic"

\* CLAUDE.md inside a directory was resolved through its filename.
C6_Witness ==
  /\ ReturnedFrom("get_provider_for_file")
  /\ call_args.file_path = D_docs \o PAT_CLAUDE
  /\ call_ret.value = "anthropic"

\* C7: get_provider_token_limit returns
\* floor(contextWindowTokens * instructionLimitPct / 100): 8000 for the
\* 200,000-token window and 41943 for the 1,048,576-token window, at 4%.
C7_TokenLimitFloor ==
  (ReturnedFrom("get_provider_token_limit") /\ call_args.provider_key \in ProviderKeys) =>
    LET profile == ProviderConfig(call_args.provider_key)
    IN /\ IsFloor(call_ret.value,
                  profile.context_window_tokens * profile.instruction_limit_pct)
       /\ (profile.context_window_tokens = 200000 /\ profile.instruction_limit_pct = 4)
            => call_ret.value = 8000
       /\ (profile.context_window_tokens = 1048576 /\ profile.instruction_limit_pct = 4)
            => call_ret.value = 41943

\* The limit of the 1,048,576-token profile was computed (41943.04 floored).
C7_Witness ==
  /\ ReturnedFrom("get_provider_token_limit")
  /\ call_args.provider_key = "google"
  /\ call_ret.value = 41943

\* C8: with a provider id that is no key of the table,
\* get_provider_token_limit does not raise and returns the limit of the
\* "default" profile.
C8_UnknownKeyFallsBack ==
  (call_args.fn = "get_provider_token_limit" /\ call_ret # Pending
     /\ call_args.provider_key \notin ProviderKeys) =>
    LET fallback == ProviderConfig("default")
    IN /\ call_ret.state = "returned"
       /\ IsFloor(call_ret.value,
                  fallback.context_window_tokens * fallback.instruction_limit_pct)

\* The lookup of the key "unknown" returned.
C8_Witness ==
  /\ ReturnedFrom("get_provider_token_limit")
  /\ call_args.provider_key = "unknown"

StatsArgsSpread ==
  /\ Len(call_args.file_sizes) >= 4
  /\ quantiles(call_args.file_sizes)[3] # quantiles(call_args.file_sizes)[1]

\* C9 as stated: for every multiplier, the result is absent with fewer
\* than 4 samples or IQR = 0, and otherwise has
\* lower_fence < q1 < q3 < upper_fence, iqr = q3 - q1 > 0 and
\* file_count = number of samples.
C9_FencesStrictEveryMultiplier ==
  ReturnedFrom("compute_baseline_stats") =>
    LET st == call_ret.value
    IN /\ ~StatsArgsSpread => ~st.present
       /\ StatsArgsSpread =>
            /\ st.present
            /\ st.lower_fence < st.q1 /\ st.q1 < st.q3 /\ st.q3 < st.upper_fence
            /\ st.iqr = st.q3 - st.q1 /\ st.iqr > 0
            /\ st.file_count = Len(call_args.file_sizes)

\* C9 (amended): the result is absent with fewer than 4 samples or IQR = 0;
\* otherwise q1 < q3, iqr = q3 - q1 > 0 and file_count = number of samples,
\* lower_fence = q1 - multiplier*iqr and upper_fence = q3 + multiplier*iqr,
\* so that lower_fence < q1 and q3 < upper_fence for every multiplier > 0,
\* while with multiplier 0 the fences are the quartiles themselves and with
\* a negative multiplier they lie inside the quartiles.
C9_Fences ==
  ReturnedFrom("compute_baseline_stats") =>
    LET st == call_ret.value
    IN /\ ~StatsArgsSpread => ~st.present
       /\ StatsArgsSpread =>
            /\ st.present
            /\ st.q1 < st.q3
            /\ st.iqr = st.q3 - st.q1 /\ st.iqr > 0
            /\ st.file_count = Len(call_args.file_sizes)
            /\ call_args.iqr_multiplier.num > 0 =>
                 (st.lower_fence < st.q1 /\ st.q3 < st.upper_fence)
            /\ call_args.iqr_multiplier.num = 0 =>
                 (st.lower_fence = st.q1 /\ st.q3 = st.upper_fence)
            /\ call_args.iqr_multiplier.num < 0 =>
                 (st.lower_fence > st.q1 /\ st.q3 > st.upper_fence)
            /\ call_args.iqr_multiplier.den * (st.q1 - st.lower_fence)
                 = call_args.iqr_multiplier.num * st.iqr
            /\ call_args.iqr_multiplier.den * (st.upper_fence - st.q3)
                 = call_args.iqr_multiplier.num * st.iqr

\* Statistics were returned for a sample with spread under multiplier 1.5.
C9_Witness ==
  /\ ReturnedFrom("compute_baseline_stats")
  /\ call_args.iqr_multiplier = [num |-> 3, den |-> 2]
  /\ call_ret.value.present
  /\ call_ret.value.lower_fence < call_ret.value.q1

SeqSet(q) == {q[i] : i \in 1..Len(q)}
Increasing(q) == \A i \in 1..Len(q) - 1 : q[i] < q[i + 1]

\* C10: detect_outliers returns as lower exactly the input positions i with
\* sizes[i] < Q1 - k*IQR and as upper exactly those with
\* sizes[i] > Q3 + k*IQR (positions of the unsorted input, each once, in
\* order), and two empty lists with fewer than 4 samples or IQR = 0; for
\* [100,101,102,103,104,105,106,5000] and k = 1.5, upper holds index 7 and
\* lower is empty.
C10_OutlierPositions ==
  ReturnedFrom("detect_outliers") =>
    LET sizes == call_args.file_sizes
        k == call_args.iqr_multiplier
        q == quantiles(sizes)
        \* size < Q1 - k*IQR, multiplied through by 4 * k.den
        below(i) == 4 * k.den * sizes[i + 1] < k.den * q[1] - k.num * (q[3] - q[1])
        above(i) == 4 * k.den * sizes[i + 1] > k.den * q[3] + k.num * (q[3] - q[1])
        positions == 0..(Len(sizes) - 1)
        out == call_ret.value
    IN /\ ~StatsArgsSpread => (out.lower = <<>> /\ out.upper = <<>>)
       /\ StatsArgsSpread =>
            /\ SeqSet(out.lower) = {i \in positions : below(i)}
            /\ SeqSet(out.upper) = {i \in positions : above(i)}
            /\ Increasing(out.lower) /\ Increasing(out.upper)
       /\ (sizes = <<100, 101, 102, 103, 104, 105, 106, 5000>>
             /\ k = [num |-> 3, den |-> 2])
            => (7 \in SeqSet(out.upper) /\ out.lower = <<>>)

\* On the sample with 5000 first and 1 in the middle, position 0 was
\* flagged upper and position 4 lower.
C10_Witness ==
  /\ ReturnedFrom("detect_outliers")
  /\ call_args.file_sizes = <<5000, 100, 101, 102, 1, 103, 104, 105>>
  /\ call_ret.value.upper = <<0>>
  /\ call_ret.value.lower = <<4>>

(***************************************************************************)
(* Properties of a run of main (checked under Spec).                       *)
(***************************************************************************)
StatusCount(status) == Cardinality({i \in 1..Len(results) : results[i].status = status})

\* C5: when main returns, its exit code is 1 if and only if at least one
\* validated file was classified "error", and 0 otherwise; "warning" and
\* "info" classifications alone give exit code 0.
C5_ExitCode ==
  pc = "done" =>
    /\ exit_code \in {0, 1}
    /\ exit_code = 1 <=> StatusCount("error") > 0
    /\ StatusCount("error") = 0 => exit_code = 0

\* A run that classified two files "warning" and none "error" returned 0.
C5_Witness ==
  /\ pc = "done"
  /\ StatusCount("warning") >= 2
  /\ StatusCount("error") = 0
  /\ exit_code = 0

(***************************************************************************)
(* Further properties of the single calls (checked under SpecCalls).       *)
(***************************************************************************)
LowerExample == <<1, 1000, 1000, 1000, 1000>>

\* k1 <= k2 for two multipliers given as fractions
FractionLeq(k1, k2) == k1.num * k2.den <= k2.num * k1.den

\* C11: the multiplier is honoured: for [1,1000,1000,1000,1000] index 0 is
\* a lower outlier with multiplier 0.1 and no outlier with 1.5; and for every
\* sample and multipliers 0 <= k1 <= k2, every index detect_outliers flags
\* with k2 is flagged, on the same side, with k1.
C11_MultiplierHonoured ==
  ReturnedFrom("detect_outliers") =>
    LET sizes == call_args.file_sizes
        k2 == call_args.iqr_multiplier
        out == call_ret.value
    IN /\ \A k1 \in Multipliers :
            (k1.num >= 0 /\ FractionLeq(k1, k2)) =>
              /\ SeqSet(out.lower) \subseteq SeqSet(detect_outliers(sizes, k1).lower)
              /\ SeqSet(out.upper) \subseteq SeqSet(detect_outliers(sizes, k1).upper)
       /\ (sizes = LowerExample /\ k2 = [num |-> 1, den |-> 10])
            => (out.lower = <<0>> /\ out.upper = <<>>)
       /\ (sizes = LowerExample /\ k2 = [num |-> 3, den |-> 2])
            => (out.lower = <<>> /\ out.upper = <<>>)

\* With multiplier 0.1 the value 1 of the example was flagged as a lower
\* outlier, which multiplier 1.5 does not flag.
C11_Witness ==
  /\ ReturnedFrom("detect_outliers")
  /\ call_args.file_sizes = LowerExample
  /\ call_args.iqr_multiplier = [num |-> 1, den |-> 10]
  /\ call_ret.value.lower = <<0>>
  /\ detect_outliers(LowerExample, [num |-> 3, den |-> 2]).lower = <<>>

(***************************************************************************)
(* Further properties of a run of main (checked under Spec).               *)
(***************************************************************************)
\* The script has finished a run in baseline comparison mode
BaselineRunDone == entry = "script" /\ compare_to # "" /\ pc = "done"

Categories == {file_checks[i].section : i \in 1..Len(file_checks)}
ValidatedCategories == {category_files[k].category : k \in 1..Len(category_files)}

\* The files of the reference revision that can be read and match a pattern
\* of the category
RefMatches(category, git) ==
  IF ~git.ls_ok THEN {}
  ELSE {i \in 1..Len(git.ls) :
          /\ git.ls[i].path \notin git.unshowable
          /\ \E j \in 1..Len(file_checks) :
               /\ file_checks[j].section = category
               /\ PathMatch(git.ls[i].path, file_checks[j].pattern)}

InsufficientLines(category) ==
  {k \in 1..Len(output) :
     output[k] = [kind |-> "insufficient", category |-> category]}

\* C12 as stated: in baseline comparison mode every category whose
\* reference revision holds fewer than 4 matching files is reported as
\* having insufficient baseline data.
C12_EveryCategoryReported ==
  BaselineRunDone =>
    \A git \in git_env : \A c \in Categories :
      Cardinality(RefMatches(c, git)) < 4 => InsufficientLines(c) # {}

\* C12 (amended): in baseline comparison mode every category with at least
\* one validated file whose reference revision holds fewer than 4 matching
\* files is reported, once, by an "insufficient baseline data" line that names
\* the category and differs from the "no outliers" line; a category no file
\* of which was validated gets no line.
C12_InsufficientReported ==
  BaselineRunDone =>
    \A git \in git_env : \A c \in Categories :
      /\ (c \in ValidatedCategories /\ Cardinality(RefMatches(c, git)) < 4)
           => Cardinality(InsufficientLines(c)) = 1
      /\ c \notin ValidatedCategories => InsufficientLines(c) = {}
      /\ \A k \in InsufficientLines(c) : output[k].kind # "no_outliers"

\* A run reported one category as lacking a baseline and flagged a file of
\* another category, whose baseline has 4 files, as an outlier.
C12_Witness ==
  /\ BaselineRunDone
  /\ InsufficientLines("Repository Instructions") # {}
  /\ \E k \in 1..Len(output) :
       output[k].kind = "outlier" /\ output[k].category = "Path-Specific Instructions"

\* A version-control query of the run failed
GitQueryFailed(git) ==
  \/ ~git.available \/ ~git.diff_ok \/ ~git.ls_ok
  \/ git.unshowable # {} \/ git.undecodable # {}

\* C13 as stated: when a version-control query fails in baseline
\* comparison mode, no exception escapes, main runs to completion and
\* returns the exit code the classifications determine, and when the files
\* of the reference revision cannot be listed every examined category is
\* reported as having no baseline.
C13_GitFailureTolerated ==
  (entry = "script" /\ compare_to # "") =>
    \A git \in git_env :
      GitQueryFailed(git) =>
        /\ pc = "done"
        /\ exit_code = (IF StatusCount("error") > 0 THEN 1 ELSE 0)
        /\ ~git.ls_ok => \A c \in ValidatedCategories : InsufficientLines(c) # {}

\* The next file main validates cannot be read
UnreadableNext == pc = "loop" /\ files # <<>> /\ ~Head(files).readable

\* What the step that validates the next file leaves of the totals
SectionTotalBefore ==
  IF file_checks[check_i].section # current_section THEN 0 ELSE section_total_tokens

\* C14 as stated: a file that cannot be read is measured as 0 characters
\* and 0 tokens and classified "ok"; the run goes on with the remaining files,
\* and the file adds nothing to the section and overall token totals or to
\* the error count.
C14_UnreadableIsOk ==
  [][UnreadableNext =>
       /\ pc' = "loop" /\ files' = Tail(files)
       /\ results' = Append(results, results'[Len(results')])
       /\ results'[Len(results')].char_count = 0
       /\ results'[Len(results')].token_count = 0
       /\ results'[Len(results')].status = "ok"
       /\ section_total_tokens' = SectionTotalBefore
       /\ overall_total_tokens' = overall_total_tokens
       /\ errors' = errors]_vars

\* C14 (amended): a file that cannot be read is measured as 0 characters
\* and 0 tokens and is never classified "error"; it is classified "ok"
\* whenever the info and warn percentages are not negative.  The run goes on
\* with the remaining files, and the file adds nothing to the section and
\* overall token totals or to the error count.
C14_UnreadableIsZero ==
  [][UnreadableNext =>
       /\ pc' = "loop" /\ files' = Tail(files)
       /\ results' = Append(results, results'[Len(results')])
       /\ results'[Len(results')].char_count = 0
       /\ results'[Len(results')].token_count = 0
       /\ results'[Len(results')].status # "error"
       /\ (/\ config_int(config, "INFO_THRESHOLD_PERCENT", 50) >= 0
           /\ config_int(config, "WARN_THRESHOLD_PERCENT", 75) >= 0)
            => results'[Len(results')].status = "ok"
       /\ section_total_tokens' = SectionTotalBefore
       /\ overall_total_tokens' = overall_total_tokens
       /\ errors' = errors]_vars

\* A run whose first file could not be read (36000 characters on disk,
\* measured as 0) classified it "ok", validated two more files and returned.
C14_Witness ==
  /\ pc = "done"
  /\ Len(results) >= 3
  /\ results[1].path = JoinRoot(PAT_COPILOT)
  /\ results[1].char_count = 0 /\ results[1].token_count = 0
  /\ results[1].status = "ok"
  /\ overall_total_tokens > 0

RequiredKeys == {"CHARS_PER_TOKEN", "INFO_THRESHOLD_PERCENT", "WARN_THRESHOLD_PERCENT"}

\* The keys the lines of a configuration file assign
AssignedKeys(file) ==
  {line_key(file.lines[i]) : i \in {k \in 1..Len(file.lines) : IsAssignment(file.lines[k])}}

\* A required key is missing from the file or a value is no number
ConfigDefective(file) ==
  /\ file.exists
  /\ \/ ~(RequiredKeys \subseteq AssignedKeys(file))
     \/ \E i \in 1..Len(file.lines) : line_raises(file.lines[i])

\* C15 as stated: when a required numeric key is missing from the
\* configuration or its value is malformed, the run aborts before any file is
\* classified.
C15_DefectiveConfigAborts ==
  ConfigDefective(config_file) =>
    (results = <<>> /\ pc \in {"start", "raised", "exited"})

\* C16 as stated: with a characters-per-token value <= 0 no token estimate
\* and no classification is produced, for any character count including 0.
C16_NonPositiveRatioRejected ==
  (/\ call_args.fn \in {"estimate_tokens", "validate_file"}
   /\ call_ret # Pending
   /\ call_args.chars_per_token <= 0) => call_ret.state = "raised"

\* The section under which main discovers the file of a path
SectionOfPath(path) ==
  file_checks[Pool[CHOOSE k \in 1..Len(Pool) : JoinRoot(Pool[k].rel) = path].check].section

\* The sum of the token counts of the first n validated files of a category
RECURSIVE TokensOfCategory(_, _)
TokensOfCategory(c, n) ==
  IF n = 0 THEN 0
  ELSE TokensOfCategory(c, n - 1)
       + (IF SectionOfPath(results[n].path) = c THEN results[n].token_count ELSE 0)

\* The sum of the totals recorded for a set of categories
RECURSIVE SumOfTotals(_)
SumOfTotals(cats) ==
  IF cats = {} THEN 0
  ELSE LET c == CHOOSE x \in cats : TRUE
       IN category_totals[c] + SumOfTotals(cats \ {c})

\* C17 as stated: at the end of a run of main the totals recorded in
\* category_totals sum to the reported overall token total, and the total
\* of each category is the sum of the token counts of the files validated in
\* it.
C17_CategoryTotalsRoundTrip ==
  pc = "done" =>
    /\ SumOfTotals(DOMAIN category_totals) = overall_total_tokens
    /\ \A c \in Categories :
         dict_get(category_totals, c, 0) = TokensOfCategory(c, Len(results))

\* The round trip in the runs of validate_context_limits.py alone
ScriptTotalsRoundTrip == entry = "script" => C17_CategoryTotalsRoundTrip

(***************************************************************************)
(* Properties of validate_category and load_config (checked under          *)
(* SpecCalls).                                                             *)
(***************************************************************************)
\* C18: validate_category applies the four-tier rule of validate_file to
\* the total and the budget, with no token conversion: its status is the one
\* validate_file gives a token count equal to the total under a limit equal
\* to the budget with the same percentages, and the result echoes the name,
\* the total and the budget.
C18_CategoryRule ==
  /\ ReturnedFrom("validate_category") =>
       LET r == call_ret.value
           t == call_args.total_chars
           b == call_args.budget
           overWarn == Exceeds(t, b * call_args.warn_pct)
           overInfo == Exceeds(t, b * call_args.info_pct)
       IN /\ r.category_name = call_args.category_name
          /\ r.total_chars = t /\ r.budget = b
          /\ r.status = "error" <=> t > b
          /\ r.status = "warning" <=> (t <= b /\ overWarn)
          /\ r.status = "info" <=> (t <= b /\ ~overWarn /\ overInfo)
          /\ r.status = "ok" <=> (t <= b /\ ~overWarn /\ ~overInfo)
  /\ ReturnedFrom("validate_file") =>
       validate_category("path_instructions", call_ret.value.token_count,
                         call_ret.value.token_limit, call_args.info_pct,
                         call_args.warn_pct).status = call_ret.value.status

\* A total exactly at the (positive) warn threshold of its budget, above the
\* info threshold, was classified "info" and echoed.
C18_Witness ==
  /\ ReturnedFrom("validate_category")
  /\ call_args.total_chars > 0
  /\ 100 * call_args.total_chars = call_args.budget * call_args.warn_pct
  /\ call_args.info_pct < call_args.warn_pct
  /\ call_ret.value.status = "info"
  /\ call_ret.value.total_chars = call_args.total_chars

\* The kinds of line of a configuration file, read off the characters
BlankLine(raw) == \A i \in 1..Len(raw) : raw[i] \in Whitespace
CommentLine(raw) ==
  \E i \in 1..Len(raw) : raw[i] = "#" /\ \A j \in 1..(i - 1) : raw[j] \in Whitespace
KeyValueLine(raw) == ~BlankLine(raw) /\ ~CommentLine(raw) /\ Contains(raw, "=")
KeyValueLines(lines) == {i \in 1..Len(lines) : KeyValueLine(lines[i])}

\* C19: load_config returns exactly the key/value pairs of the KEY=value
\* lines of the file (the last line of a key counting), blank lines and
\* lines whose first non-blank character is "#" skipped, a value being an
\* integer unless it contains a decimal point; without the file it ends
\* the process (SystemExit) instead of returning.
C19_LoadConfig ==
  (call_args.fn = "load_config" /\ call_ret # Pending) =>
    LET file == call_args.file
        kv == KeyValueLines(file.lines)
    IN /\ ~file.exists <=> call_ret = Raised("SystemExit")
       /\ (file.exists /\ \A i \in kv : ~line_raises(file.lines[i]))
            => call_ret.state = "returned"
       /\ call_ret.state = "returned" =>
            /\ DOMAIN call_ret.value = {line_key(file.lines[i]) : i \in kv}
            /\ \A i \in kv :
                 (\A j \in kv : j > i => line_key(file.lines[j]) # line_key(file.lines[i]))
                   => /\ call_ret.value[line_key(file.lines[i])]
                           = parse_value(line_value(file.lines[i]))
                      /\ call_ret.value[line_key(file.lines[i])].is_float
                           <=> Contains(line_value(file.lines[i]), ".")
            /\ file.lines = <<L_comment, L_key_100, L_indented_comment>>
                 => call_ret.value = [KEY |-> PyInt(100)]
            /\ file.lines = <<L_key1_100, L_blank, L_key2_200>>
                 => call_ret.value = [KEY1 |-> PyInt(100), KEY2 |-> PyInt(200)]
            /\ file.lines = <<L_key_100, L_key_spaced, L_mult_1_5>>
                 => call_ret.value
                      = [KEY |-> PyInt(7), OUTLIER_IQR_MULTIPLIER |-> PyFloat(3, 2)]

\* A file with a comment, KEY=100 and an indented comment holding "=" was
\* loaded as {"KEY": 100}.
C19_Witness ==
  /\ ReturnedFrom("load_config")
  /\ call_args.file.lines = <<L_comment, L_key_100, L_indented_assign>>
  /\ call_ret.value = [KEY |-> PyInt(100)]

(***************************************************************************)
(* Baseline comparison mode: which files are flagged (checked under Spec). *)
(***************************************************************************)
\* The paths git reports as changed
ChangedPaths(git) ==
  IF git.diff_ok THEN {JoinRoot(git.diff[k]) : k \in 1..Len(git.diff)} ELSE {}

\* The statistics of the reference revision for a category: computed from
\* what git answers and the multiplier alone
ReferenceStats(category, git) ==
  compute_baseline_stats(
    baseline_sizes(dict_get(get_baseline_file_sizes(instruction_patterns, git),
                            cat_pattern_of(category), <<>>)),
    iqr_multiplier_of(config))

\* The validated file lies outside the fences of the statistics, on a side
BelowFence(r, stats) == stats.present /\ r.token_count * stats.scale < stats.lower_fence
AboveFence(r, stats) == stats.present /\ r.token_count * stats.scale > stats.upper_fence

OutlierLines(path) == {k \in 1..Len(output) : output[k].kind = "outlier" /\ output[k].path = path}

StandardRunDone == entry = "script" /\ compare_to = "" /\ pc = "done"

\* The entry of category_files of a category
CategoryEntry(category) ==
  category_files[CHOOSE k \in 1..Len(category_files) :
                   category_files[k].category = category]

\* Twice the median of a sample: the middle element counted twice for an odd
\* number of samples, the sum of the two middle elements for an even number
TwiceMedian(sizes) ==
  IF Len(sizes) % 2 = 1
  THEN 2 * sorted(sizes)[(Len(sizes) + 1) \div 2]
  ELSE sorted(sizes)[Len(sizes) \div 2] + sorted(sizes)[(Len(sizes) \div 2) + 1]

\* C21 as stated: in the standard mode only categories with at least 4
\* member files are analysed, and the signed deviation reported for a
\* flagged file is its size minus the median of the current sizes of its
\* category, for an odd and for an even number of members alike.
C21_DeviationFromMedian ==
  StandardRunDone =>
    \A k \in 1..Len(output) :
      output[k].kind = "outlier" =>
        /\ output[k].category \in ValidatedCategories
        /\ Len(CategoryEntry(output[k].category).files) >= 4
        /\ 2 * output[k].diff
             = 2 * output[k].tokens
               - TwiceMedian(token_sizes_of(CategoryEntry(output[k].category).files))

\* What the analysis does report: the size minus the element at index
\* len // 2 of the sorted sizes, the upper of the two middle elements when
\* the number of members is even.
StandardDeviationIsFromUpperMiddle ==
  StandardRunDone =>
    \A k \in 1..Len(output) :
      output[k].kind = "outlier" =>
        /\ output[k].category \in ValidatedCategories
        /\ Len(CategoryEntry(output[k].category).files) >= 4
        /\ output[k].diff
             = output[k].tokens
               - sorted(token_sizes_of(CategoryEntry(output[k].category).files))
                   [(Len(CategoryEntry(output[k].category).files) \div 2) + 1]

(***************************************************************************)
(* The statistical core (checked under SpecCalls).                         *)
(***************************************************************************)
\* clamp(floor(i*(n+1)/4), 1, n-1)
QuartileIndex(n, i) ==
  IF PyFloorDiv(i * (n + 1), 4) < 1 THEN 1
  ELSE IF PyFloorDiv(i * (n + 1), 4) > n - 1 THEN n - 1
  ELSE PyFloorDiv(i * (n + 1), 4)

\* Four times the i-th quartile of the exclusive method with linear
\* interpolation: s[j-1]*(4-d) + s[j]*d with d = i*(n+1) - 4*j, s the sorted
\* sample indexed from 0
FourQuartile(sizes, i) ==
  LET s == sorted(sizes)
      j == QuartileIndex(Len(sizes), i)
      d == i * (Len(sizes) + 1) - 4 * j
  IN s[j] * (4 - d) + s[j + 1] * d

ReferenceSample(category, git) ==
  dict_get(get_baseline_file_sizes(instruction_patterns, git),
           cat_pattern_of(category), <<>>)

\* The validated files main compares with fences of the reference revision
ComparedResults(git) ==
  {i \in 1..Len(results) :
     /\ results[i].path \in ChangedPaths(git)
     /\ ReferenceStats(SectionOfPath(results[i].path), git).present}

\* C23 as stated: in baseline comparison mode the reference sizes the
\* fences of a category are computed from and the current size of a changed
\* file compared with them are in one unit, for every characters-per-token
\* ratio: either the compared current size is the character count of the
\* file, as the reference sizes are, or every reference size is the token
\* estimate of the reference text, as the current size is.
C23_SameUnit ==
  BaselineRunDone =>
    \A git \in git_env : \A i \in ComparedResults(git) :
      \/ results[i].token_count = results[i].char_count
      \/ /\ config_int(config, "CHARS_PER_TOKEN", 4) > 0
         /\ \A k \in 1..Len(ReferenceSample(SectionOfPath(results[i].path), git)) :
              ReferenceSample(SectionOfPath(results[i].path), git)[k].size
                = estimate_tokens(
                    ReferenceSample(SectionOfPath(results[i].path), git)[k].size,
                    config_int(config, "CHARS_PER_TOKEN", 4))

\* C24 as stated: in baseline comparison mode a category is reported as
\* "Insufficient baseline data (need 4+ files ...)" only if the reference
\* revision has fewer than 4 files for it; a category with 4 or more
\* reference files whose sizes have IQR = 0 is not reported so.
C24_InsufficientMeansFewFiles ==
  BaselineRunDone =>
    \A git \in git_env : \A category \in Categories :
      InsufficientLines(category) # {}
        => Len(ReferenceSample(category, git)) < 4

\* What the report does mean: no statistics, which is fewer than 4 files or
\* 4 and more files between whose quartiles there is no spread.
InsufficientMeansNoStatistics ==
  BaselineRunDone =>
    \A git \in git_env : \A category \in ValidatedCategories :
      InsufficientLines(category) # {}
        <=> \/ Len(ReferenceSample(category, git)) < 4
            \/ FourQuartile(baseline_sizes(ReferenceSample(category, git)), 1)
                 = FourQuartile(baseline_sizes(ReferenceSample(category, git)), 3)

\* The readable files of the reference revision that match any of the
\* patterns file_checks declares for a category
UnionSample(category, git) ==
  IF ~git.ls_ok THEN <<>>
  ELSE SelectSeq(git.ls,
         LAMBDA f : /\ f.path \notin git.unshowable
                    /\ \E j \in 1..Len(file_checks) :
                         /\ file_checks[j].section = category
                         /\ PathMatch(f.path, file_checks[j].pattern))

UnionStats(category, git) ==
  compute_baseline_stats(baseline_sizes(UnionSample(category, git)),
                         iqr_multiplier_of(config))

\* C25 as stated: in baseline comparison mode the reference statistics used
\* for a category are computed from the reference files matching all of the
\* discovery patterns of the category: a validated category is reported as
\* having insufficient baseline data exactly when the union sample gives no
\* statistics, and its changed files are flagged by the fences of the union
\* sample.
C25_BaselineOverAllPatterns ==
  BaselineRunDone =>
    \A git \in git_env :
      /\ \A category \in ValidatedCategories :
           InsufficientLines(category) # {} <=> ~UnionStats(category, git).present
      /\ \A i \in 1..Len(results) :
           OutlierLines(results[i].path) # {}
             <=> /\ results[i].path \in ChangedPaths(git)
                 /\ \/ BelowFence(results[i], UnionStats(SectionOfPath(results[i].path), git))
                    \/ AboveFence(results[i], UnionStats(SectionOfPath(results[i].path), git))

\* C26: the two detection paths share one statistical core: for every
\* sample and multiplier, detect_outliers(sizes, k) flags index i as lower
\* (upper) if and only if compute_baseline_stats(sizes, k) is present and
\* sizes[i] < its lower_fence (sizes[i] > its upper_fence); detect_outliers
\* returns two empty lists exactly when compute_baseline_stats returns
\* absent or no size lies outside the fences.
C26_SharedCore ==
  ReturnedFrom("detect_outliers") =>
    LET sizes == call_args.file_sizes
        st == compute_baseline_stats(sizes, call_args.iqr_multiplier)
        out == call_ret.value
        below(i) == st.present /\ sizes[i + 1] * st.scale < st.lower_fence
        above(i) == st.present /\ sizes[i + 1] * st.scale > st.upper_fence
    IN /\ \A i \in 0..(Len(sizes) - 1) :
            /\ i \in SeqSet(out.lower) <=> below(i)
            /\ i \in SeqSet(out.upper) <=> above(i)
       /\ SeqSet(out.lower) \cup SeqSet(out.upper) \subseteq 0..(Len(sizes) - 1)
       /\ (out.lower = <<>> /\ out.upper = <<>>)
            <=> \/ ~st.present
                \/ \A i \in 0..(Len(sizes) - 1) : ~below(i) /\ ~above(i)

\* detect_outliers flagged a size below and a size above the fences that
\* compute_baseline_stats gives for the same sample and multiplier.
C26_Witness ==
  /\ ReturnedFrom("detect_outliers")
  /\ compute_baseline_stats(call_args.file_sizes, call_args.iqr_multiplier).present
  /\ call_ret.value.lower # <<>>
  /\ call_ret.value.upper # <<>>
  /\ \E i \in 1..Len(call_args.file_sizes) :
       call_args.file_sizes[i] * 4 * call_args.iqr_multiplier.den
         = compute_baseline_stats(call_args.file_sizes,
                                  call_args.iqr_multiplier).lower_fence

(***************************************************************************)
(* The exit code and the outlier analysis (checked under Spec).            *)
(***************************************************************************)
\* The script has left its per-file loop and entered the outlier analysis
AnalysisEntered ==
  entry = "script" /\ (pc = "done" \/ (pc = "raised" /\ git_env # {}))

\* C27 as stated: the outlier analysis never influences the exit code.  The
\* classifications in results are a function of the files and thresholds
\* alone, so two runs over the same files and thresholds that differ in the
\* multiplier, in --compare-to, in the baseline data or in the changed-files
\* set agree on the exit code and the counts if and only if every run that
\* enters the analysis returns the exit code and holds the counts that
\* results determine.
C27_ExitCodeIndependent ==
  AnalysisEntered =>
    /\ exit_code = main_exit_code(StatusCount("error"))
    /\ errors = StatusCount("error")
    /\ warnings = StatusCount("warning")

\* The runs in which the analysis comes to its end: the exit code and the
\* counts are those of the classifications whatever the multiplier, the
\* mode, the reference revision and the changed files.
CompletedAnalysisKeepsExitCode ==
  (entry = "script" /\ pc = "done") => C27_ExitCodeIndependent

(***************************************************************************)
(* Reordering of the sample (checked under SpecCalls).                     *)
(***************************************************************************)
\* The sample with the elements at positions i and i+1 exchanged
SwapAdjacent(sizes, i) ==
  [k \in 1..Len(sizes) |->
     IF k = i THEN sizes[i + 1] ELSE IF k = i + 1 THEN sizes[i] ELSE sizes[k]]

Reversed(sizes) == [k \in 1..Len(sizes) |-> sizes[Len(sizes) + 1 - k]]

\* The exchanges of two neighbours, which generate every permutation, and
\* the reversal
Rearrangements(sizes) ==
  {SwapAdjacent(sizes, i) : i \in 1..(Len(sizes) - 1)} \cup {Reversed(sizes)}

\* How often the value v is among the sizes at the flagged indices
FlaggedCount(sizes, indices, v) ==
  Cardinality({k \in 1..Len(indices) : sizes[indices[k] + 1] = v})

SameFlaggedValues(sizes, found, other, other_found) ==
  \A v \in SeqSet(sizes) :
    /\ FlaggedCount(sizes, found.lower, v) = FlaggedCount(other, other_found.lower, v)
    /\ FlaggedCount(sizes, found.upper, v) = FlaggedCount(other, other_found.upper, v)

ReorderingInvariant ==
  /\ ReturnedFrom("compute_baseline_stats") =>
       \A other \in Rearrangements(call_args.file_sizes) :
         compute_baseline_stats(other, call_args.iqr_multiplier) = call_ret.value
  /\ ReturnedFrom("detect_outliers") =>
       \A other \in Rearrangements(call_args.file_sizes) :
         SameFlaggedValues(call_args.file_sizes, call_ret.value, other,
                           detect_outliers(other, call_args.iqr_multiplier))

\* C28 as stated: for any sample and any permutation of it,
\* compute_baseline_stats returns the same statistics and detect_outliers
\* flags the same multiset of size values; the lower and upper index lists
\* are always disjoint.
C28_ReorderingAlwaysDisjoint ==
  /\ ReorderingInvariant
  /\ ReturnedFrom("detect_outliers") =>
       SeqSet(call_ret.value.lower) \cap SeqSet(call_ret.value.upper) = {}

\* C28 (amended): for any sample, any permutation of it and every
\* multiplier, compute_baseline_stats returns the same statistics and
\* detect_outliers flags the same multiset of size values; the lower and
\* upper index lists are disjoint for every multiplier k >= -1/2, while for
\* k < -1/2 the lower fence lies above the upper fence and the sizes
\* strictly between the two are in both lists.
C28_Reordering ==
  /\ ReorderingInvariant
  /\ ReturnedFrom("detect_outliers") =>
       LET k == call_args.iqr_multiplier
           st == compute_baseline_stats(call_args.file_sizes, k)
           both == SeqSet(call_ret.value.lower) \cap SeqSet(call_ret.value.upper)
       IN /\ 2 * k.num >= 0 - k.den => both = {}
          /\ both = {i \in 0..(Len(call_args.file_sizes) - 1) :
                       /\ st.present
                       /\ st.upper_fence < call_args.file_sizes[i + 1] * st.scale
                       /\ call_args.file_sizes[i + 1] * st.scale < st.lower_fence}

\* detect_outliers flagged position 0 above and position 4 below on a
\* sample that is out of order, and on the sample with its first two
\* elements exchanged flags position 1 above: the same value 5000.
C28_Witness ==
  /\ ReturnedFrom("detect_outliers")
  /\ call_args.file_sizes = <<5000, 100, 101, 102, 1, 103, 104, 105>>
  /\ call_args.iqr_multiplier = [num |-> 3, den |-> 2]
  /\ call_ret.value = [lower |-> <<4>>, upper |-> <<0>>]
  /\ detect_outliers(SwapAdjacent(call_args.file_sizes, 1),
                     call_args.iqr_multiplier) = [lower |-> <<4>>, upper |-> <<1>>]

(***************************************************************************)
(* The two entry points compared (checked under Spec).  What a run holds   *)
(* after its loop is compared with a function of the discovered files,     *)
(* their sizes and the configuration alone, the same for both entry        *)
(* points: two runs that both meet it agree with one another.              *)
(***************************************************************************)
\* The run has left the per-file loop with all of file_checks processed
LoopLeft ==
  pc \in {"done", "raised"} /\ check_i = Len(file_checks) /\ files = <<>>

PoolIndex(path) == CHOOSE k \in 1..Len(Pool) : JoinRoot(Pool[k].rel) = path

\* The classification of the i-th discovered file under the configuration
ClassificationOf(i) ==
  validate_file([path |-> results[i].path, content_len |-> results[i].char_count,
                 readable |-> TRUE],
                RunOs,
                config_int(load_config(config_file), "CHARS_PER_TOKEN", 4),
                config_int(load_config(config_file), "INFO_THRESHOLD_PERCENT", 50),
                config_int(load_config(config_file), "WARN_THRESHOLD_PERCENT", 75))

\* The sum of the token counts of the classifications of the first n files
RECURSIVE ClassifiedTokens(_)
ClassifiedTokens(n) ==
  IF n = 0 THEN 0 ELSE ClassifiedTokens(n - 1) + ClassificationOf(n).token_count

ClassifiedCount(status) ==
  Cardinality({i \in 1..Len(results) : ClassificationOf(i).status = status})

\* The files were validated in the order of file_checks and of discovery,
\* each with the severity of its classification, and the totals and counts
\* are those of the classifications
ReportAgrees ==
  /\ \A i \in 1..(Len(results) - 1) :
       PoolIndex(results[i].path) < PoolIndex(results[i + 1].path)
  /\ \A i \in 1..Len(results) : results[i] = ClassificationOf(i)
  /\ overall_files = Len(results)
  /\ overall_total_tokens = ClassifiedTokens(Len(results))
  /\ errors = ClassifiedCount("error")
  /\ warnings = ClassifiedCount("warning")

\* C29 as stated: the packaged entry point and the standalone script agree
\* on classification: for the same discovered files, sizes and
\* configuration they validate the same sequence of files with the same
\* per-file severities, and report the same overall token total, overall
\* file count, error count, warning count and exit code.
C29_EntryPointsAgree ==
  LoopLeft =>
    /\ ReportAgrees
    /\ pc = "done"
    /\ exit_code = main_exit_code(ClassifiedCount("error"))

\* What the two entry points do agree on: the files validated, their
\* severities, the totals and the counts of every run that has left its
\* loop, and the exit code of every run that returns.
EntryPointsAgreeWhenReturning ==
  LoopLeft =>
    /\ ReportAgrees
    /\ pc = "done" => exit_code = main_exit_code(ClassifiedCount("error"))

(***************************************************************************)
(* The running counters of main's loop (checked under Spec, both entry     *)
(* points).                                                                *)
(***************************************************************************)
\* main is between two iterations of its per-file loop, or past the loop
BetweenIterations == pc \in {"loop", "done"}

\* The sum of the token counts of the first n validated files
RECURSIVE TokensOfFiles(_)
TokensOfFiles(n) ==
  IF n = 0 THEN 0 ELSE TokensOfFiles(n - 1) + results[n].token_count

\* The validated files of the section main is in; the sections follow one
\* another in file_checks, so these are the files validated since
\* current_section last changed
FilesOfCurrentSection ==
  {i \in 1..Len(results) : SectionOfPath(results[i].path) = current_section}

\* The counters that count files, and the sums
CountersExact ==
  /\ overall_files = Len(results)
  /\ overall_total_tokens = TokensOfFiles(Len(results))
  /\ errors = StatusCount("error") /\ warnings = StatusCount("warning")
  /\ errors + warnings <= overall_files
  /\ section_files <= overall_files
  /\ section_files = Cardinality(FilesOfCurrentSection)
  /\ section_total_tokens = TokensOfCategory(current_section, Len(results))

\* C30 as stated: after every iteration of main's per-file loop
\* overall_files equals the number of files validated so far,
\* overall_total_tokens equals the sum of their token counts,
\* errors + warnings <= overall_files, section_files <= overall_files and
\* section_total_tokens <= overall_total_tokens, and section_total_tokens
\* and section_files cover exactly the files validated since the last
\* change of current_section.
C30_CountersConsistent ==
  BetweenIterations =>
    /\ CountersExact
    /\ section_total_tokens <= overall_total_tokens

\* What holds of the counters after every iteration: the counts and sums
\* are exact, and the section total does not exceed the overall total as
\* long as no token count is negative, that is for every positive
\* CHARS_PER_TOKEN.
CountersConsistentForPositiveRatio ==
  BetweenIterations =>
    /\ CountersExact
    /\ (\A i \in 1..Len(results) : results[i].token_count >= 0)
         => section_total_tokens <= overall_total_tokens
    /\ config_int(config, "CHARS_PER_TOKEN", 4) > 0
         => \A i \in 1..Len(results) : results[i].token_count >= 0

====
